---- MODULE Spec2Model ----
(***************************************************************************)
(* Two-way mail synchronisation between a local Maildir mirror (left, L)   *)
(* and a remote IMAP mailbox (right, R) with a persistent sync cache.      *)
(*                                                                         *)
(* The IMAP backend operations are translated from                         *)
(* src/src/backend/imap/backend.rs; the IMAP server they talk to follows   *)
(* RFC 3501.  The Maildir backend, the sync cache and the reconciler are   *)
(* not part of the sources at hand and are modelled from spec.md           *)
(* (sections 4.3, 4.6, 4.7, 4.8).                                          *)
(***************************************************************************)
EXTENDS Integers, Sequences, FiniteSets, TLC

\* ------------------------------------------------------------------ bounds

\* external mutations (other mail clients, the user) over a whole behaviour
MaxExt == 4
\* sync runs over a whole behaviour
MaxSync == 3
\* injected transport failures over a whole behaviour
MaxFaults == 1
\* messages of a mailbox a client operates on directly
MaxBox == 3
\* contract operations a client calls directly in one behaviour
MaxOps == 1

\* The width of usize, scaled down: sizes, pages and sequence numbers are
\* numbers of UsizeBits bits.
UsizeBits == 4

\* Commands of another client served between the two commands of add_email.
MaxOthers == 1

\* ---------------------------------------------------------------- universe

\* Messages: the bytes of a message are identified by the stable id their
\* headers yield, so a message is written as its stable id.
Ids == {"a", "b"}

\* The flags of the closed set that both backends represent.
Flag == {"Seen", "Answered", "Flagged", "Deleted", "Draft"}

\* The flags external clients switch: Seen (the AND flag of the convergence
\* rule), Flagged (one of the OR flags) and Deleted (the flag EXPUNGE acts on).
ExtFlags == {"Seen", "Flagged", "Deleted"}

FlagSets == SUBSET Flag

\* Folder names at the contract (UTF-8).
FolderNames == {"INBOX", "Projects"}

\* Folders that can be created and deleted; INBOX always exists on both sides.
DynFolders == {"Projects"}

\* Folders external clients deliver mail into.
MailFolders == {"INBOX"}

NoId == "none"

\* ------------------------------------------------------- folder name coding

\* utf7_imap::encode_utf7_imap on the names of the model: printable ASCII is
\* kept, "&" becomes "&-".
encode_utf7(name) ==
    CASE name = "R&D" -> "R&-D"
      [] OTHER -> name

\* utf7_imap::decode_utf7_imap: "&-" becomes "&".
decode_utf7(wire) ==
    CASE wire = "R&-D" -> "R&D"
      [] OTHER -> wire

WireNames == {encode_utf7(n) : n \in FolderNames}

\* ------------------------------------------------------------------- state

VARIABLES
    lFolders,   \* Maildir: set of folder names
    lBox,       \* Maildir: folder -> (stable id -> flag set), the files of the folder
    rFolders,   \* IMAP: set of mailbox names (wire form)
    rBox,       \* IMAP: mailbox -> sequence of [id, flags], indexed by sequence number
    cFoldersL,  \* cache: local-known folder names
    cFoldersR,  \* cache: remote-known folder names
    cEnvL,      \* cache: folder -> (stable id -> [iid, flags]), local side
    cEnvR,      \* cache: folder -> (stable id -> [iid, flags]), remote side
    pc,         \* position of the sync run: "idle", "folders", "envelopes"
    cur,        \* folder whose envelopes are being reconciled, or NoId
    queue,      \* folders still to reconcile in this run
    todo,       \* names (folder phase) or ids (envelope phase) still to process
    snap,       \* the live snapshots and cached sets the current phase classifies
    txn,        \* cache writes of the current phase, not yet committed
    report,     \* the Report of the current or last run
    pre,        \* both backends and the cache as they were when the run started
    streak,     \* sync runs completed since the last external mutation (capped)
    nExt,       \* external mutations so far
    nSync,      \* sync runs started so far
    nFaults,    \* injected failures so far
    call,       \* the last contract operation a client called directly, with its result
    nOps,       \* contract operations called directly so far
    upc,        \* user thread -> position in the ImapBackend call it is making
    sid,        \* user thread -> the session of its ImapBackend (0: not connected)
    borrows,    \* user thread -> live RefMut borrows of its backend's session
    cancel,     \* the caller of an IDLE loop has asked it to stop
    tick,       \* user thread -> parity of the keepalive cycles of its IDLE wait
    emailVal,   \* an Email value: its raw bytes and its cached parse tree
    parses,     \* how many times the raw bytes of the Email value were parsed
    ret,        \* what the last call made on the Email value returned
    nCalls      \* calls made on the Email value so far

backendVars == <<lFolders, lBox, rFolders, rBox>>
cacheVars == <<cFoldersL, cFoldersR, cEnvL, cEnvR>>
runVars == <<pc, cur, queue, todo, snap, txn, report, pre>>
countVars == <<streak, nExt, nSync, nFaults>>
opVars == <<call, nOps>>
idleVars == <<upc, sid, borrows, cancel, tick>>
emailVars == <<emailVal, parses, ret, nCalls>>
vars == <<backendVars, cacheVars, runVars, countVars, opVars, idleVars, emailVars>>

\* ----------------------------------------------------------------- helpers

EmptyMap == [i \in {} |-> {}]

\* f with key k bound to v
Put(f, k, v) == [x \in (DOMAIN f) \cup {k} |-> IF x = k THEN v ELSE f[x]]

\* f without key k
Drop(f, k) == [x \in (DOMAIN f) \ {k} |-> f[x]]

\* the sequence numbers at which sequence s holds stable id i
SeqsOf(s, i) == {n \in 1..Len(s) : s[n].id = i}

IdsOf(s) == {s[n].id : n \in 1..Len(s)}

\* ------------------------------------------- IMAP server (RFC 3501) commands

\* The mailbox of a folder as the IMAP session sees it.
Remote == [folders |-> rFolders, box |-> rBox]

\* Ids cross the contract as strings: a sequence number is written in decimal
\* (to_string) and the server reads the number back from a sequence set.
SeqNum(seq) ==
    IF \E n \in 1..(Cardinality(Ids) + MaxBox + 1) : ToString(n) = seq
    THEN CHOOSE n \in 1..(Cardinality(Ids) + MaxBox + 1) : ToString(n) = seq
    ELSE 0

\* SELECT: fails on a mailbox that does not exist; EXISTS is the message count.
ImapSelectOk(R, wire) == wire \in R.folders

\* STORE seq FLAGS / +FLAGS / -FLAGS on one sequence number; a sequence number
\* that denotes no message is rejected by the server.
ImapStoreOk(box, seq) == SeqNum(seq) \in 1..Len(box)

ImapStore(box, seq, mode, flags) ==
    [box EXCEPT ![SeqNum(seq)].flags =
        CASE mode = "+FLAGS" -> @ \cup flags
          [] mode = "-FLAGS" -> @ \ flags
          [] OTHER -> flags]

\* EXPUNGE: removes every message of the selected mailbox that carries \Deleted;
\* the messages behind a removed one move down one sequence number.
ImapExpunge(box) == SelectSeq(box, LAMBDA m : "Deleted" \notin m.flags)

\* FETCH seq BODY[] in a mailbox opened with SELECT: returns the message and
\* sets \Seen on it (BODY[] is not BODY.PEEK[]).
ImapFetchBody(box, seq) ==
    IF SeqNum(seq) \in 1..Len(box)
    THEN [fetches |-> <<[seq |-> SeqNum(seq), body |-> box[SeqNum(seq)].id]>>,
          box |-> [box EXCEPT ![SeqNum(seq)].flags = @ \cup {"Seen"}]]
    ELSE [fetches |-> <<>>, box |-> box]

\* APPEND with initial flags: the message gets the next sequence number.
ImapAppend(box, email, flags) == Append(box, [id |-> email, flags |-> flags])

\* COPY seq mailbox: the message is appended to the target with its flags; a
\* sequence number that names no message or a missing target is rejected.
ImapCopyOk(R, wire, seq, target) ==
    SeqNum(seq) \in 1..Len(R.box[wire]) /\ target \in R.folders

ImapCopy(R, wire, seq, target) ==
    [R EXCEPT !.box[target] = Append(@, R.box[wire][SeqNum(seq)])]

\* MOVE seq mailbox: COPY, then the message leaves the source mailbox.
ImapMove(R, wire, seq, target) ==
    LET src == R.box[wire]
        n == SeqNum(seq)
    IN [R EXCEPT !.box[target] = Append(R.box[target], src[n]),
                 !.box[wire] = SubSeq(src, 1, n - 1) \o SubSeq(src, n + 1, Len(src))]

\* LIST "" "*": the server reports the mailboxes in an order of its own.
ImapList(R) ==
    {o \in [1..Cardinality(R.folders) -> R.folders] :
        \A i, j \in 1..Cardinality(R.folders) : i # j => o[i] # o[j]}

\* --------------------------------------- Email (src/domain/email/email.rs)

\* TryFrom<ZeroCopy<Vec<Fetch>>> for Email: empty fetches are an error, the
\* fetches are kept as the raw email otherwise.
\* Option::None
None == [some |-> FALSE]

Some(v) == [some |-> TRUE, val |-> v]

\* a conversion that accepts an empty list of fetches
Email_try_from_lenient(fetches) ==
    [ok |-> TRUE, val |-> [raw |-> "ImapFetches", fetches |-> fetches, parsed |-> None]]

Email_try_from(fetches) ==
    IF fetches = <<>>
    THEN [ok |-> FALSE, val |-> "ParseEmailFromImapFetchesEmptyError"]
    ELSE [ok |-> TRUE, val |-> [raw |-> "ImapFetches", fetches |-> fetches, parsed |-> None]]

\* Email::as_raw: the owned or borrowed bytes, or the body of the first fetch.
as_raw(email) ==
    CASE email.raw \in {"Vec", "Bytes"} -> [ok |-> TRUE, val |-> email.bytes]
      [] email.fetches = <<>> ->
            [ok |-> FALSE, val |-> "ParseEmailFromImapFetchesEmptyError"]
      [] OTHER -> [ok |-> TRUE, val |-> email.fetches[1].body]

\* ------------------------------------- ImapBackend (src/backend/imap/backend.rs)

\* The result of a backend call: whether it returned Ok, the backend afterwards
\* and the value returned.
Res(ok, B, val) == [ok |-> ok, B |-> B, val |-> val]

WithBox(R, wire, box) == [R EXCEPT !.box[wire] = box]

\* add_folder with the CREATE left out
add_folder_no_create(R, folder) == Res(TRUE, R, 0)

\* add_folder: CREATE of the encoded name; the server answers NO when the
\* mailbox exists and the error is returned.
add_folder(R, folder) ==
    LET wire == encode_utf7(folder)
    IN IF wire \in R.folders
       THEN Res(FALSE, R, "CreateMboxError")
       ELSE Res(TRUE, [folders |-> R.folders \cup {wire},
                       box |-> [R.box EXCEPT ![wire] = <<>>]], 0)

\* list_folder: the Folders of the LIST response o, in the order of the
\* response, each name decoded.
list_folder_of(o) == [k \in DOMAIN o |-> decode_utf7(o[k])]

\* list_folder: LIST "" "*", each name decoded.
list_folder(R) == {decode_utf7(w) : w \in R.folders}

\* delete_folder with the DELETE left out
delete_folder_no_delete(R, folder) == Res(TRUE, R, 0)

\* delete_folder: DELETE of the encoded name, the mailbox goes with its messages.
delete_folder(R, folder) ==
    LET wire == encode_utf7(folder)
    IN IF wire \notin R.folders
       THEN Res(FALSE, R, "DeleteMboxError")
       ELSE Res(TRUE, [folders |-> R.folders \ {wire},
                       box |-> [R.box EXCEPT ![wire] = <<>>]], 0)

\* usize arithmetic of the two builds: an operation whose result does not fit
\* panics in a debug build (overflow checks on) and wraps in a release build.
Builds == {"debug", "release"}

UsizeMax == 2 ^ UsizeBits - 1

Usize == 0..UsizeMax

usize_mul(build, x, y) ==
    IF x * y <= UsizeMax
    THEN [ok |-> TRUE, val |-> x * y, wrapped |-> FALSE]
    ELSE [ok |-> build = "release", val |-> (x * y) % (UsizeMax + 1), wrapped |-> TRUE]

usize_sub(build, x, y) ==
    IF x >= y
    THEN [ok |-> TRUE, val |-> x - y, wrapped |-> FALSE]
    ELSE [ok |-> build = "release", val |-> x - y + UsizeMax + 1, wrapped |-> TRUE]

usize_add(build, x, y) ==
    IF x + y <= UsizeMax
    THEN [ok |-> TRUE, val |-> x + y, wrapped |-> FALSE]
    ELSE [ok |-> build = "release", val |-> (x + y) % (UsizeMax + 1), wrapped |-> TRUE]

usize_min(x, y) == IF x < y THEN x ELSE y

usize_max(x, y) == IF x > y THEN x ELSE y

\* what list_envelope does after SELECT reported last_seq
Window(kind, end, begin, wrapped) ==
    [kind |-> kind, end |-> end, begin |-> begin, wrapped |-> wrapped]

\* the window computed as last_seq - cursor, without the clamp of the cursor
list_envelope_window_unclamped(build, last_seq, page_size, page) ==
    IF last_seq = 0
    THEN Window("empty", 0, 0, FALSE)
    ELSE IF page_size > 0
         THEN LET cursor == usize_mul(build, page, page_size)
                  d == usize_sub(build, last_seq, cursor.val)
                  begin == usize_max(1, d.val)
                  e == usize_sub(build, begin, usize_min(begin, page_size))
              IN IF cursor.ok /\ d.ok /\ e.ok
                 THEN Window("fetch", e.val + 1, begin,
                             cursor.wrapped \/ d.wrapped \/ e.wrapped)
                 ELSE Window("panic", 0, 0, FALSE)
         ELSE Window("all", 0, 0, FALSE)

\* list_envelope between SELECT and FETCH: no FETCH for an empty mailbox
\* ("empty"), the range "end:begin" ("fetch"), the range "1:*" ("all"), or the
\* panic of a debug build on an arithmetic overflow ("panic").
list_envelope_window(build, last_seq, page_size, page) ==
    IF last_seq = 0
    THEN Window("empty", 0, 0, FALSE)
    ELSE IF page_size > 0
         THEN LET cursor == usize_mul(build, page, page_size)
                  d == usize_sub(build, last_seq, usize_min(cursor.val, last_seq))
                  begin == usize_max(1, d.val)
                  e == usize_sub(build, begin, usize_min(begin, page_size))
              IN IF cursor.ok /\ d.ok /\ e.ok
                 THEN Window("fetch", e.val + 1, begin,
                             cursor.wrapped \/ d.wrapped \/ e.wrapped)
                 ELSE Window("panic", 0, 0, FALSE)
         ELSE Window("all", 0, 0, FALSE)

\* The sequence range list_envelope fetches: <<end, begin>> of "end:begin",
\* or <<1, last_seq>> for "1:*".
list_envelope_range(last_seq, page_size, page) ==
    LET w == list_envelope_window("release", last_seq, page_size, page)
    IN IF w.kind = "fetch" THEN <<w.end, w.begin>> ELSE <<1, last_seq>>

\* list_envelope: SELECT, then FETCH range (ENVELOPE FLAGS INTERNALDATE).  The
\* id of a listed envelope is its message sequence number, the id add_email
\* returns and get_email and the flag operations take.
list_envelope(R, folder, page_size, page) ==
    LET wire == encode_utf7(folder)
    IN IF ~ImapSelectOk(R, wire)
       THEN Res(FALSE, R, "SelectFolderError")
       ELSE LET box == R.box[wire]
                last_seq == Len(box)
            IN IF last_seq = 0
               THEN Res(TRUE, R, <<>>)
               ELSE LET range == list_envelope_range(last_seq, page_size, page)
                    IN Res(TRUE, R,
                           [k \in 1..(range[2] - range[1] + 1) |->
                               [id |-> box[range[1] + k - 1].id,
                                iid |-> ToString(range[1] + k - 1),
                                flags |-> box[range[1] + k - 1].flags]])

\* add_email that returns the first sequence number of the mailbox
add_email_first(R, folder, email, flags) ==
    LET wire == encode_utf7(folder)
    IN IF ~ImapSelectOk(R, wire)
       THEN Res(FALSE, R, "AppendMsgError")
       ELSE LET box == ImapAppend(R.box[wire], email, flags)
            IN Res(TRUE, WithBox(R, wire, box), "1")

\* add_email: APPEND with the flags, then SELECT; returns EXISTS as the id.
add_email(R, folder, email, flags) ==
    LET wire == encode_utf7(folder)
    IN IF ~ImapSelectOk(R, wire)
       THEN Res(FALSE, R, "AppendMsgError")
       ELSE LET box == ImapAppend(R.box[wire], email, flags)
            IN Res(TRUE, WithBox(R, wire, box), ToString(Len(box)))

\* get_email: SELECT, then FETCH seq BODY[]; empty fetches are an error.
get_email(R, folder, seq) ==
    LET wire == encode_utf7(folder)
    IN IF ~ImapSelectOk(R, wire)
       THEN Res(FALSE, R, "SelectFolderError")
       ELSE LET f == ImapFetchBody(R.box[wire], seq)
                e == Email_try_from(f.fetches)
            IN IF ~e.ok
               THEN Res(FALSE, R, e.val)
               ELSE Res(TRUE, WithBox(R, wire, f.box), e.val)

\* copy_email: SELECT of the source, then COPY ids target.
copy_email(R, folder, folder_target, ids) ==
    LET wire == encode_utf7(folder)
        target == encode_utf7(folder_target)
    IN IF ~ImapSelectOk(R, wire)
       THEN Res(FALSE, R, "SelectFolderError")
       ELSE IF ~ImapCopyOk(R, wire, ids, target)
       THEN Res(FALSE, R, "CopyEmailError")
       ELSE Res(TRUE, ImapCopy(R, wire, ids, target), 0)

\* move_email: SELECT of the source, then MOVE ids target.
move_email(R, folder, folder_target, ids) ==
    LET wire == encode_utf7(folder)
        target == encode_utf7(folder_target)
    IN IF ~ImapSelectOk(R, wire)
       THEN Res(FALSE, R, "SelectFolderError")
       ELSE IF ~ImapCopyOk(R, wire, ids, target)
       THEN Res(FALSE, R, "MoveEmailError")
       ELSE Res(TRUE, ImapMove(R, wire, ids, target), 0)

\* add_flags: SELECT, STORE seq +FLAGS (flags), then EXPUNGE.
add_flags(R, folder, seq, flags) ==
    LET wire == encode_utf7(folder)
    IN IF ~ImapSelectOk(R, wire)
       THEN Res(FALSE, R, "SelectFolderError")
       ELSE IF ~ImapStoreOk(R.box[wire], seq)
       THEN Res(FALSE, R, "AddFlagsError")
       ELSE Res(TRUE,
                WithBox(R, wire, ImapExpunge(ImapStore(R.box[wire], seq, "+FLAGS", flags))),
                0)

\* delete_email: add_flags(folder, seq, "deleted").
delete_email(R, folder, seq) == add_flags(R, folder, seq, {"Deleted"})

\* set_flags storing with +FLAGS in place of FLAGS
set_flags_adding(R, folder, seq, flags) ==
    LET wire == encode_utf7(folder)
    IN IF ~ImapSelectOk(R, wire)
       THEN Res(FALSE, R, "SelectFolderError")
       ELSE IF ~ImapStoreOk(R.box[wire], seq)
       THEN Res(FALSE, R, "SetFlagsError")
       ELSE Res(TRUE, WithBox(R, wire, ImapStore(R.box[wire], seq, "+FLAGS", flags)), 0)

\* set_flags: SELECT, STORE seq FLAGS (flags).
set_flags(R, folder, seq, flags) ==
    LET wire == encode_utf7(folder)
    IN IF ~ImapSelectOk(R, wire)
       THEN Res(FALSE, R, "SelectFolderError")
       ELSE IF ~ImapStoreOk(R.box[wire], seq)
       THEN Res(FALSE, R, "SetFlagsError")
       ELSE Res(TRUE, WithBox(R, wire, ImapStore(R.box[wire], seq, "FLAGS", flags)), 0)

\* remove_flags: SELECT, STORE seq -FLAGS (flags).
remove_flags(R, folder, seq, flags) ==
    LET wire == encode_utf7(folder)
    IN IF ~ImapSelectOk(R, wire)
       THEN Res(FALSE, R, "SelectFolderError")
       ELSE IF ~ImapStoreOk(R.box[wire], seq)
       THEN Res(FALSE, R, "DelFlagsError")
       ELSE Res(TRUE, WithBox(R, wire, ImapStore(R.box[wire], seq, "-FLAGS", flags)), 0)

\* -------------------------------------------- Maildir backend (spec.md 4.3)

Local == [folders |-> lFolders, box |-> lBox]

\* add_folder: idempotent if the folder exists.
mdir_add_folder(L, folder) ==
    IF folder \in L.folders
    THEN Res(TRUE, L, 0)
    ELSE Res(TRUE, [folders |-> L.folders \cup {folder},
                    box |-> [L.box EXCEPT ![folder] = EmptyMap]], 0)

mdir_list_folders(L) == L.folders

\* delete_folder: recursive delete of the directory.
mdir_delete_folder(L, folder) ==
    IF folder \notin L.folders
    THEN Res(FALSE, L, 0)
    ELSE Res(TRUE, [folders |-> L.folders \ {folder},
                    box |-> [L.box EXCEPT ![folder] = EmptyMap]], 0)

\* The internal id of a Maildir message is its filename stem, unique per file
\* and kept when the flags are rewritten; the file of stable id i has stem i.
mdir_list_envelopes(L, folder) ==
    [i \in DOMAIN L.box[folder] |-> [id |-> i, iid |-> i, flags |-> L.box[folder][i]]]

\* add_email: write into tmp/, rename into cur/; returns the filename stem.
mdir_add_email(L, folder, email, flags) ==
    IF folder \notin L.folders
    THEN Res(FALSE, L, NoId)
    ELSE Res(TRUE, [L EXCEPT !.box[folder] = Put(@, email, flags)], email)

mdir_get_email(L, folder, iid) ==
    IF folder \notin L.folders \/ iid \notin DOMAIN L.box[folder]
    THEN Res(FALSE, L, NoId)
    ELSE Res(TRUE, L, iid)

\* delete_emails with the file-remove configuration: the file is unlinked.
mdir_delete_email(L, folder, iid) ==
    IF folder \notin L.folders \/ iid \notin DOMAIN L.box[folder]
    THEN Res(FALSE, L, 0)
    ELSE Res(TRUE, [L EXCEPT !.box[folder] = Drop(@, iid)], 0)

\* set_flags: the flag string of the filename is rewritten.
mdir_set_flags(L, folder, iid, flags) ==
    IF folder \notin L.folders \/ iid \notin DOMAIN L.box[folder]
    THEN Res(FALSE, L, 0)
    ELSE Res(TRUE, [L EXCEPT !.box[folder][iid] = flags], 0)

\* ------------------------------------------------- sync cache (spec.md 4.6)

Cache == [fl |-> cFoldersL, fr |-> cFoldersR, el |-> cEnvL, er |-> cEnvR]

\* ------------------------------------------- folder reconciler (spec.md 4.7)

\* The action of the table for a name, by presence in L, in R and in the
\* cached "ever seen" set C.
FolderAction(inL, inR, inC) ==
    CASE inL /\ inR -> "converge"
      [] inL /\ ~inR /\ ~inC -> "createR"
      [] ~inL /\ inR /\ ~inC -> "createL"
      [] inL /\ ~inR /\ inC -> "deleteL"
      [] ~inL /\ inR /\ inC -> "deleteR"
      [] OTHER -> "forget"

FolderActionOf(n) ==
    FolderAction(n \in snap.L, n \in snap.R, n \in snap.CL \cup snap.CR)

\* ----------------------------------------- envelope reconciler (spec.md 4.8)

\* The classification with the one-sided cache of a held envelope read as a new
\* envelope: (in L, not in R, not in Cl, in Cr) and its mirror are copied.
EnvAction_copy_forgotten(inL, inR, inCl, inCr) ==
    CASE inL /\ inR -> "flags"
      [] inL /\ ~inR /\ inCl /\ inCr -> "deleteL"
      [] ~inL /\ inR /\ inCl /\ inCr -> "deleteR"
      [] inL /\ ~inR -> "copyLR"
      [] ~inL /\ inR -> "copyRL"
      [] ~inL /\ ~inR /\ inCl /\ inCr -> "forget"
      [] OTHER -> "conflict"

\* The action of the rule list for a 4-tuple (in L, in R, in Cl, in Cr); a tuple
\* no rule names is a conflict, which is logged and ignored.
EnvAction(inL, inR, inCl, inCr) ==
    CASE inL /\ inR -> "flags"
      [] inL /\ ~inR /\ ~inCl /\ ~inCr -> "copyLR"
      [] ~inL /\ inR /\ ~inCl /\ ~inCr -> "copyRL"
      [] inL /\ ~inR /\ inCl /\ inCr -> "deleteL"
      [] ~inL /\ inR /\ inCl /\ inCr -> "deleteR"
      [] ~inL /\ ~inR /\ inCl /\ inCr -> "forget"
      [] inL /\ ~inR /\ ~inCl /\ inCr -> "forget"
      [] ~inL /\ inR /\ inCl /\ ~inCr -> "forget"
      [] inL /\ ~inR /\ inCl /\ ~inCr -> "copyLR"
      [] ~inL /\ inR /\ ~inCl /\ inCr -> "copyRL"
      [] OTHER -> "conflict"

EnvActionOf(i) ==
    EnvAction(i \in DOMAIN snap.L, i \in DOMAIN snap.R,
              i \in DOMAIN snap.CL, i \in DOMAIN snap.CR)

\* Actions are applied in this order: creates, flag updates, deletes.
ActionClass(a) ==
    CASE a \in {"copyLR", "copyRL"} -> 1
      [] a = "flags" -> 2
      [] OTHER -> 3

\* The flags of the per-flag rule; Deleted is always OR.
RuleFlags == {"Seen", "Answered", "Flagged", "Draft"}

\* The converged value of flag f: l, r are the sides' values, hasCl/cl and
\* hasCr/cr the cached ones.  A side changed when it differs from its cached
\* value (or has none).
MergeFlag(f, l, r, hasCl, cl, hasCr, cr) ==
    LET lchg == ~hasCl \/ l # cl
        rchg == ~hasCr \/ r # cr
    IN CASE f \notin RuleFlags -> l \/ r
         [] l = r -> l
         [] lchg /\ ~rchg -> l
         [] rchg /\ ~lchg -> r
         [] f = "Seen" -> l /\ r
         [] OTHER -> l \/ r

MergeFlags(lf, rf, hasCl, clf, hasCr, crf) ==
    {f \in Flag : MergeFlag(f, f \in lf, f \in rf, hasCl, f \in clf, hasCr, f \in crf)}

MergedOf(i) ==
    MergeFlags(snap.L[i].flags, snap.R[i].flags,
               i \in DOMAIN snap.CL,
               IF i \in DOMAIN snap.CL THEN snap.CL[i].flags ELSE {},
               i \in DOMAIN snap.CR,
               IF i \in DOMAIN snap.CR THEN snap.CR[i].flags ELSE {})

\* The envelopes of an IMAP listing keyed by stable id.
ByStableId(envs) ==
    [i \in IdsOf(envs) |-> envs[CHOOSE n \in SeqsOf(envs, i) : \A m \in SeqsOf(envs, i) : m <= n]]

\* ------------------------------------------------------------------ report

\* The Report of a run: the actions applied, the names and ids whose action
\* failed, and among those the ones that failed by an injected transport failure.
NoReport == [applied |-> {}, failed |-> {}, faulted |-> {}]

\* An applied action: the operation, the side it changed, the folder, the name or
\* stable id it was applied for, and the internal id the backend took or returned.
Applied(op, side, folder, key, iid) ==
    [op |-> op, side |-> side, folder |-> folder, key |-> key, iid |-> iid]

Failed(folder, key) == [folder |-> folder, key |-> key]

NoSnap == [L |-> {}, R |-> {}, CL |-> {}, CR |-> {}]

NoPre == [L |-> "none", R |-> "none", C |-> "none"]

\* An injected transport failure: the j-th backend call of an action returns an
\* error and has no effect.
FaultChoices == 0..2

Inject(k, j, res, B) == IF k = j THEN Res(FALSE, B, res.val) ELSE res

FaultAllowed(k) == k = 0 \/ nFaults < MaxFaults

FaultCount(k) == IF k = 0 THEN nFaults ELSE nFaults + 1

\* -------------------------------------------------------------------- Init

NoCall == [op |-> "none"]

\* The threads that use the IMAP backend; each connects an ImapBackend of its own.
Users == {"u1", "u2"}

\* no Email value is under test
NoEmail == [raw |-> "none"]

EmailInit == emailVal = NoEmail /\ parses = 0 /\ ret = NoCall /\ nCalls = 0

\* no thread has connected yet
IdleInit ==
    /\ upc = [u \in Users |-> "new"]
    /\ sid = [u \in Users |-> 0]
    /\ borrows = [u \in Users |-> 0]
    /\ cancel = FALSE
    /\ tick = [u \in Users |-> 0]

NoTxn == [fl |-> {}, fr |-> {}, el |-> EmptyMap, er |-> EmptyMap]

Init ==
    /\ lFolders = {"INBOX"}
    /\ lBox = [n \in FolderNames |-> EmptyMap]
    /\ rFolders = {encode_utf7("INBOX")}
    /\ rBox = [w \in WireNames |-> <<>>]
    /\ cFoldersL = {}
    /\ cFoldersR = {}
    /\ cEnvL = [n \in FolderNames |-> EmptyMap]
    /\ cEnvR = [n \in FolderNames |-> EmptyMap]
    /\ pc = "idle"
    /\ cur = NoId
    /\ queue = {}
    /\ todo = {}
    /\ snap = NoSnap
    /\ txn = NoTxn
    /\ report = NoReport
    /\ pre = NoPre
    /\ streak = 0
    /\ nExt = 0
    /\ nSync = 0
    /\ nFaults = 0
    /\ call = NoCall
    /\ nOps = 0
    /\ IdleInit
    /\ EmailInit

\* ------------------------------------------------------ external mutations
\* Other mail clients and the user change either backend while no sync runs.

ExtGuard == pc = "idle" /\ nExt < MaxExt

ExtFrame ==
    /\ nExt' = nExt + 1
    /\ streak' = 0
    /\ report' = NoReport
    /\ pre' = NoPre
    /\ UNCHANGED <<cacheVars, pc, cur, queue, todo, snap, txn, nSync, nFaults, opVars, idleVars, emailVars>>

\* a message is delivered into a Maildir folder
ExtLAdd(f, i) ==
    /\ ExtGuard
    /\ f \in lFolders /\ i \notin DOMAIN lBox[f]
    /\ lBox' = [lBox EXCEPT ![f] = Put(@, i, {})]
    /\ UNCHANGED <<lFolders, rFolders, rBox>>
    /\ ExtFrame

\* another client appends a message to an IMAP mailbox
ExtRAdd(f, i) ==
    /\ ExtGuard
    /\ encode_utf7(f) \in rFolders /\ i \notin IdsOf(rBox[encode_utf7(f)])
    /\ rBox' = [rBox EXCEPT ![encode_utf7(f)] = ImapAppend(@, i, {})]
    /\ UNCHANGED <<lFolders, lBox, rFolders>>
    /\ ExtFrame

\* a Maildir file is removed
ExtLDelete(f, i) ==
    /\ ExtGuard
    /\ f \in lFolders /\ i \in DOMAIN lBox[f]
    /\ lBox' = [lBox EXCEPT ![f] = Drop(@, i)]
    /\ UNCHANGED <<lFolders, rFolders, rBox>>
    /\ ExtFrame

\* another client removes one message of an IMAP mailbox (UID EXPUNGE)
ExtRDelete(f, n) ==
    /\ ExtGuard
    /\ encode_utf7(f) \in rFolders /\ n \in 1..Len(rBox[encode_utf7(f)])
    /\ rBox' = [rBox EXCEPT ![encode_utf7(f)] =
                    SubSeq(@, 1, n - 1) \o SubSeq(@, n + 1, Len(@))]
    /\ UNCHANGED <<lFolders, lBox, rFolders>>
    /\ ExtFrame

\* a flag of a Maildir file is switched
ExtLFlag(f, i, g) ==
    /\ ExtGuard
    /\ f \in lFolders /\ i \in DOMAIN lBox[f]
    /\ lBox' = [lBox EXCEPT ![f][i] = IF g \in @ THEN @ \ {g} ELSE @ \cup {g}]
    /\ UNCHANGED <<lFolders, rFolders, rBox>>
    /\ ExtFrame

\* another client switches a flag of an IMAP message (STORE, no EXPUNGE)
ExtRFlag(f, n, g) ==
    /\ ExtGuard
    /\ encode_utf7(f) \in rFolders /\ n \in 1..Len(rBox[encode_utf7(f)])
    /\ rBox' = [rBox EXCEPT ![encode_utf7(f)][n].flags =
                    IF g \in @ THEN @ \ {g} ELSE @ \cup {g}]
    /\ UNCHANGED <<lFolders, lBox, rFolders>>
    /\ ExtFrame

ExtLAddFolder(n) ==
    /\ ExtGuard
    /\ n \notin lFolders
    /\ lFolders' = lFolders \cup {n}
    /\ UNCHANGED <<lBox, rFolders, rBox>>
    /\ ExtFrame

ExtLDelFolder(n) ==
    /\ ExtGuard
    /\ n \in lFolders
    /\ lFolders' = lFolders \ {n}
    /\ lBox' = [lBox EXCEPT ![n] = EmptyMap]
    /\ UNCHANGED <<rFolders, rBox>>
    /\ ExtFrame

ExtRAddFolder(n) ==
    /\ ExtGuard
    /\ encode_utf7(n) \notin rFolders
    /\ rFolders' = rFolders \cup {encode_utf7(n)}
    /\ UNCHANGED <<lFolders, lBox, rBox>>
    /\ ExtFrame

ExtRDelFolder(n) ==
    /\ ExtGuard
    /\ encode_utf7(n) \in rFolders
    /\ rFolders' = rFolders \ {encode_utf7(n)}
    /\ rBox' = [rBox EXCEPT ![encode_utf7(n)] = <<>>]
    /\ UNCHANGED <<lFolders, lBox>>
    /\ ExtFrame

\* ---------------------------------------------------------------- sync run

SetLocal(L) == lFolders' = L.folders /\ lBox' = L.box

SetRemote(R) == rFolders' = R.folders /\ rBox' = R.box

\* sync: the run starts with the folder phase on the live folder lists and the
\* cached folder sets.
SyncStart ==
    /\ pc = "idle" /\ nSync < MaxSync
    /\ pc' = "folders"
    /\ nSync' = nSync + 1
    /\ snap' = [L |-> mdir_list_folders(Local), R |-> list_folder(Remote),
                CL |-> cFoldersL, CR |-> cFoldersR]
    /\ todo' = mdir_list_folders(Local) \cup list_folder(Remote) \cup cFoldersL \cup cFoldersR
    /\ txn' = [NoTxn EXCEPT !.fl = cFoldersL, !.fr = cFoldersR]
    /\ report' = NoReport
    /\ pre' = [L |-> Local, R |-> Remote, C |-> Cache]
    /\ UNCHANGED <<backendVars, cacheVars, cur, queue, streak, nExt, nFaults, opVars, idleVars, emailVars>>

\* The backend call of a folder action and the cache writes it stages.
FolderCall(a, n) ==
    CASE a = "createR" -> [side |-> "R", op |-> "mkdir", res |-> add_folder(Remote, n)]
      [] a = "createL" -> [side |-> "L", op |-> "mkdir", res |-> mdir_add_folder(Local, n)]
      [] a = "deleteL" -> [side |-> "L", op |-> "rmdir", res |-> mdir_delete_folder(Local, n)]
      [] a = "deleteR" -> [side |-> "R", op |-> "rmdir", res |-> delete_folder(Remote, n)]

FolderStage(a, n, t) ==
    CASE a = "converge" -> [t EXCEPT !.fl = @ \cup {n}, !.fr = @ \cup {n}]
      [] a = "createR" -> [t EXCEPT !.fr = @ \cup {n}]
      [] a = "createL" -> [t EXCEPT !.fl = @ \cup {n}]
      [] OTHER -> [t EXCEPT !.fl = @ \ {n}, !.fr = @ \ {n}]

\* one name of the folder phase
FolderStep(n, k) ==
    /\ pc = "folders" /\ n \in todo
    /\ k \in {0, 1} /\ FaultAllowed(k)
    /\ LET a == FolderActionOf(n)
       IN IF a \in {"converge", "forget"}
          THEN /\ k = 0
               /\ txn' = FolderStage(a, n, txn)
               /\ UNCHANGED <<backendVars, report, nFaults>>
          ELSE LET c == FolderCall(a, n)
                   B == IF c.side = "L" THEN Local ELSE Remote
                   r == Inject(k, 1, c.res, B)
               IN /\ IF c.side = "L"
                     THEN SetLocal(r.B) /\ UNCHANGED <<rFolders, rBox>>
                     ELSE SetRemote(r.B) /\ UNCHANGED <<lFolders, lBox>>
                  /\ txn' = IF r.ok THEN FolderStage(a, n, txn) ELSE txn
                  /\ report' = IF r.ok
                               THEN [report EXCEPT !.applied = @ \cup {Applied(c.op, c.side, n, n, n)}]
                               ELSE [report EXCEPT
                                        !.failed = @ \cup {Failed(n, n)},
                                        !.faulted = IF k = 0 THEN @ ELSE @ \cup {Failed(n, n)}]
                  /\ nFaults' = FaultCount(k)
    /\ todo' = todo \ {n}
    /\ UNCHANGED <<cacheVars, pc, cur, queue, snap, pre, streak, nExt, nSync, opVars, idleVars, emailVars>>

\* the folder phase commits its cache writes in one transaction
FolderCommit ==
    /\ pc = "folders" /\ todo = {}
    /\ cFoldersL' = txn.fl
    /\ cFoldersR' = txn.fr
    /\ pc' = "envelopes"
    /\ queue' = mdir_list_folders(Local) \cap list_folder(Remote)
    /\ snap' = NoSnap
    /\ txn' = NoTxn
    /\ UNCHANGED <<backendVars, cEnvL, cEnvR, cur, todo, report, pre, countVars, opVars, idleVars, emailVars>>

\* the envelope phase of the next folder starts on the live listings of both
\* sides and the cached envelopes of both sides
EnvStart ==
    /\ pc = "envelopes" /\ cur = NoId /\ queue # {}
    /\ LET f == CHOOSE n \in queue : TRUE
           L == mdir_list_envelopes(Local, f)
           R == ByStableId(list_envelope(Remote, f, 0, 0).val)
       IN /\ cur' = f
          /\ snap' = [L |-> L, R |-> R, CL |-> cEnvL[f], CR |-> cEnvR[f]]
          /\ todo' = DOMAIN L \cup DOMAIN R \cup DOMAIN cEnvL[f] \cup DOMAIN cEnvR[f]
          /\ txn' = [NoTxn EXCEPT !.el = cEnvL[f], !.er = cEnvR[f]]
    /\ UNCHANGED <<backendVars, cacheVars, pc, queue, report, pre, countVars, opVars, idleVars, emailVars>>

\* id i is next whatever the classes of the pending ids
EnvReady_any_order(i, a) ==
    /\ pc = "envelopes" /\ cur # NoId /\ i \in todo
    /\ EnvActionOf(i) \in a

\* id i is next: it is pending and no pending id has an action of an earlier class
EnvReady(i, a) ==
    /\ pc = "envelopes" /\ cur # NoId /\ i \in todo
    /\ EnvActionOf(i) \in a
    /\ \A j \in todo : ActionClass(EnvActionOf(j)) >= ActionClass(EnvActionOf(i))

EnvFrame(i, k) ==
    /\ todo' = todo \ {i}
    /\ nFaults' = FaultCount(k)
    /\ UNCHANGED <<cacheVars, pc, cur, queue, snap, pre, streak, nExt, nSync, opVars, idleVars, emailVars>>

\* the outcome of an id's action with the cache written whether it failed or not
EnvOutcome_cache_always(i, k, ok, acts, el, er) ==
    /\ txn' = [txn EXCEPT !.el = el, !.er = er]
    /\ report' = IF ok
                 THEN [report EXCEPT !.applied = @ \cup acts]
                 ELSE [report EXCEPT
                          !.failed = @ \cup {Failed(cur, i)},
                          !.faulted = IF k = 0 THEN @ ELSE @ \cup {Failed(cur, i)}]

\* The outcome of an id's action: its cache writes are staged and the action is
\* listed as applied when it succeeded, the id is listed as failed otherwise.
EnvOutcome(i, k, ok, acts, el, er) ==
    /\ txn' = IF ok THEN [txn EXCEPT !.el = el, !.er = er] ELSE txn
    /\ report' = IF ok
                 THEN [report EXCEPT !.applied = @ \cup acts]
                 ELSE [report EXCEPT
                          !.failed = @ \cup {Failed(cur, i)},
                          !.faulted = IF k = 0 THEN @ ELSE @ \cup {Failed(cur, i)}]

\* new locally: get_email on L, add_email on R; cache both sides
EnvCopyLR(i, k) ==
    /\ EnvReady(i, {"copyLR"}) /\ k \in FaultChoices /\ FaultAllowed(k)
    /\ LET e == snap.L[i]
           g == Inject(k, 1, mdir_get_email(Local, cur, e.iid), Local)
           a == IF g.ok
                THEN Inject(k, 2, add_email(Remote, cur, g.val, e.flags), Remote)
                ELSE Res(FALSE, Remote, NoId)
       IN /\ k = 2 => g.ok
          /\ SetRemote(a.B)
          /\ UNCHANGED <<lFolders, lBox>>
          /\ EnvOutcome(i, k, a.ok, {Applied("copy", "R", cur, i, a.val)},
                        Put(txn.el, i, [iid |-> e.iid, flags |-> e.flags]),
                        Put(txn.er, i, [iid |-> a.val, flags |-> e.flags]))
    /\ EnvFrame(i, k)

\* new remotely: get_email on R, add_email on L; cache both sides
EnvCopyRL(i, k) ==
    /\ EnvReady(i, {"copyRL"}) /\ k \in FaultChoices /\ FaultAllowed(k)
    /\ LET e == snap.R[i]
           g == Inject(k, 1, get_email(Remote, cur, e.iid), Remote)
           a == IF g.ok
                THEN Inject(k, 2, mdir_add_email(Local, cur, as_raw(g.val).val, e.flags), Local)
                ELSE Res(FALSE, Local, NoId)
       IN /\ k = 2 => g.ok
          /\ SetRemote(g.B)
          /\ SetLocal(a.B)
          /\ EnvOutcome(i, k, a.ok, {Applied("copy", "L", cur, i, a.val)},
                        Put(txn.el, i, [iid |-> a.val, flags |-> e.flags]),
                        Put(txn.er, i, [iid |-> e.iid, flags |-> e.flags]))
    /\ EnvFrame(i, k)

\* on both sides: each side whose flags differ from the converged set gets
\* set_flags; the cache records of both sides take the converged set
EnvFlags(i, k) ==
    /\ EnvReady(i, {"flags"}) /\ k \in FaultChoices /\ FaultAllowed(k)
    /\ LET el == snap.L[i]
           er == snap.R[i]
           m == MergedOf(i)
           needL == el.flags # m
           needR == er.flags # m
           l == IF needL
                THEN Inject(k, 1, mdir_set_flags(Local, cur, el.iid, m), Local)
                ELSE Res(TRUE, Local, 0)
           r == IF needR /\ l.ok
                THEN Inject(k, 2, set_flags(Remote, cur, er.iid, m), Remote)
                ELSE Res(l.ok, Remote, 0)
       IN /\ k = 1 => needL
          /\ k = 2 => needR /\ l.ok
          /\ SetLocal(l.B)
          /\ SetRemote(r.B)
          /\ EnvOutcome(i, k, r.ok,
                        (IF needL THEN {Applied("flags", "L", cur, i, el.iid)} ELSE {})
                          \cup (IF needR THEN {Applied("flags", "R", cur, i, er.iid)} ELSE {}),
                        Put(txn.el, i, [iid |-> el.iid, flags |-> m]),
                        Put(txn.er, i, [iid |-> er.iid, flags |-> m]))
    /\ EnvFrame(i, k)

\* deleted remotely: delete on L; both cache records go
EnvDeleteL(i, k) ==
    /\ EnvReady(i, {"deleteL"}) /\ k \in {0, 1} /\ FaultAllowed(k)
    /\ LET d == Inject(k, 1, mdir_delete_email(Local, cur, snap.L[i].iid), Local)
       IN /\ SetLocal(d.B)
          /\ UNCHANGED <<rFolders, rBox>>
          /\ EnvOutcome(i, k, d.ok, {Applied("delete", "L", cur, i, snap.L[i].iid)},
                        Drop(txn.el, i), Drop(txn.er, i))
    /\ EnvFrame(i, k)

\* deleted locally: delete on R; both cache records go
EnvDeleteR(i, k) ==
    /\ EnvReady(i, {"deleteR"}) /\ k \in {0, 1} /\ FaultAllowed(k)
    /\ LET d == Inject(k, 1, delete_email(Remote, cur, snap.R[i].iid), Remote)
       IN /\ SetRemote(d.B)
          /\ UNCHANGED <<lFolders, lBox>>
          /\ EnvOutcome(i, k, d.ok, {Applied("delete", "R", cur, i, snap.R[i].iid)},
                        Drop(txn.el, i), Drop(txn.er, i))
    /\ EnvFrame(i, k)

\* gone from both sides, or cached for the side that no longer holds it: the
\* cache records go; a tuple without a rule is ignored
EnvForget(i) ==
    /\ EnvReady(i, {"forget", "conflict"})
    /\ txn' = IF EnvActionOf(i) = "forget"
              THEN [txn EXCEPT !.el = Drop(@, i), !.er = Drop(@, i)]
              ELSE txn
    /\ UNCHANGED <<backendVars, report>>
    /\ EnvFrame(i, 0)

\* the envelope phase of a folder commits its cache writes in one transaction
EnvCommit ==
    /\ pc = "envelopes" /\ cur # NoId /\ todo = {}
    /\ cEnvL' = [cEnvL EXCEPT ![cur] = txn.el]
    /\ cEnvR' = [cEnvR EXCEPT ![cur] = txn.er]
    /\ queue' = queue \ {cur}
    /\ cur' = NoId
    /\ snap' = NoSnap
    /\ txn' = NoTxn
    /\ UNCHANGED <<backendVars, cFoldersL, cFoldersR, pc, todo, report, pre, countVars, opVars, idleVars, emailVars>>

\* the run returns its Report
SyncEnd ==
    /\ pc = "envelopes" /\ cur = NoId /\ queue = {}
    /\ pc' = "idle"
    /\ streak' = IF streak < 2 THEN streak + 1 ELSE 2
    /\ UNCHANGED <<backendVars, cacheVars, cur, queue, todo, snap, txn, report, pre,
                   nExt, nSync, nFaults, opVars, idleVars, emailVars>>

Next ==
    \/ \E f \in MailFolders, i \in Ids : ExtLAdd(f, i)
    \/ \E f \in MailFolders, i \in Ids : ExtRAdd(f, i)
    \/ \E f \in MailFolders, i \in Ids : ExtLDelete(f, i)
    \/ \E f \in MailFolders, n \in 1..Cardinality(Ids) : ExtRDelete(f, n)
    \/ \E f \in MailFolders, i \in Ids, g \in ExtFlags : ExtLFlag(f, i, g)
    \/ \E f \in MailFolders, n \in 1..Cardinality(Ids), g \in ExtFlags : ExtRFlag(f, n, g)
    \/ \E n \in DynFolders : ExtLAddFolder(n)
    \/ \E n \in DynFolders : ExtLDelFolder(n)
    \/ \E n \in DynFolders : ExtRAddFolder(n)
    \/ \E n \in DynFolders : ExtRDelFolder(n)
    \/ SyncStart
    \/ \E n \in FolderNames, k \in {0, 1} : FolderStep(n, k)
    \/ FolderCommit
    \/ EnvStart
    \/ \E i \in Ids, k \in FaultChoices : EnvCopyLR(i, k)
    \/ \E i \in Ids, k \in FaultChoices : EnvCopyRL(i, k)
    \/ \E i \in Ids, k \in FaultChoices : EnvFlags(i, k)
    \/ \E i \in Ids, k \in {0, 1} : EnvDeleteL(i, k)
    \/ \E i \in Ids, k \in {0, 1} : EnvDeleteR(i, k)
    \/ \E i \in Ids : EnvForget(i)
    \/ EnvCommit
    \/ SyncEnd

Spec == Init /\ [][Next]_vars

\* ------------------------------------------------------------------ crash
\* The process dies during a sync run: the staged cache writes of the open
\* transaction are lost, the persisted cache and both backends stay as they are.

\* a crash that persists the staged writes of the open transaction
Crash_flushing ==
    /\ pc # "idle" /\ nFaults < MaxFaults
    /\ nFaults' = nFaults + 1
    /\ pc' = "idle"
    /\ cFoldersL' = IF pc = "folders" THEN txn.fl ELSE cFoldersL
    /\ cFoldersR' = IF pc = "folders" THEN txn.fr ELSE cFoldersR
    /\ cEnvL' = IF pc = "envelopes" /\ cur # NoId THEN [cEnvL EXCEPT ![cur] = txn.el] ELSE cEnvL
    /\ cEnvR' = IF pc = "envelopes" /\ cur # NoId THEN [cEnvR EXCEPT ![cur] = txn.er] ELSE cEnvR
    /\ cur' = NoId
    /\ queue' = {}
    /\ todo' = {}
    /\ snap' = NoSnap
    /\ txn' = NoTxn
    /\ streak' = 0
    /\ UNCHANGED <<backendVars, report, pre, nExt, nSync, opVars, idleVars, emailVars>>

Crash ==
    /\ pc # "idle" /\ nFaults < MaxFaults
    /\ nFaults' = nFaults + 1
    /\ pc' = "idle"
    /\ cur' = NoId
    /\ queue' = {}
    /\ todo' = {}
    /\ snap' = NoSnap
    /\ txn' = NoTxn
    /\ streak' = 0
    /\ UNCHANGED <<backendVars, cacheVars, report, pre, nExt, nSync, opVars, idleVars, emailVars>>

NextCrash == Next \/ Crash

SpecCrash == Init /\ [][NextCrash]_vars

\* ------------------------------------------------- flag convergence inputs
\* One message held by both sides and recorded in both caches, with every
\* combination of the sides' flag sets and of the cached flag sets, reconciled
\* by sync runs with no external mutation.

MergeFlagSets == SUBSET RuleFlags

InitMerge ==
    \E l \in MergeFlagSets, r \in MergeFlagSets, cl \in MergeFlagSets, cr \in MergeFlagSets :
        /\ lFolders = {"INBOX"}
        /\ lBox = [n \in FolderNames |-> IF n = "INBOX" THEN Put(EmptyMap, "a", l) ELSE EmptyMap]
        /\ rFolders = {encode_utf7("INBOX")}
        /\ rBox = [w \in WireNames |->
                      IF w = encode_utf7("INBOX") THEN ImapAppend(<<>>, "a", r) ELSE <<>>]
        /\ cFoldersL = {"INBOX"}
        /\ cFoldersR = {"INBOX"}
        /\ cEnvL = [n \in FolderNames |->
                      IF n = "INBOX" THEN Put(EmptyMap, "a", [flags |-> cl, iid |-> "a"])
                      ELSE EmptyMap]
        /\ cEnvR = [n \in FolderNames |->
                      IF n = "INBOX" THEN Put(EmptyMap, "a", [flags |-> cr, iid |-> "1"])
                      ELSE EmptyMap]
        /\ pc = "idle"
        /\ cur = NoId
        /\ queue = {}
        /\ todo = {}
        /\ snap = NoSnap
        /\ txn = NoTxn
        /\ report = NoReport
        /\ pre = NoPre
        /\ streak = 0
        /\ nExt = 0
        /\ nSync = 0
        /\ nFaults = 0
        /\ call = NoCall
        /\ nOps = 0
        /\ IdleInit
        /\ EmailInit

NextMerge ==
    \/ SyncStart
    \/ \E n \in FolderNames, k \in {0, 1} : FolderStep(n, k)
    \/ FolderCommit
    \/ EnvStart
    \/ \E i \in Ids, k \in FaultChoices : EnvFlags(i, k)
    \/ EnvCommit
    \/ SyncEnd

SpecMerge == InitMerge /\ [][NextMerge]_vars

\* ------------------------------------------- direct calls of the contract
\* A client calls one operation of ImapBackend on a mailbox of any content.

OpFlags == {"Seen", "Deleted"}

OpFlagSets == SUBSET OpFlags

OpSeqs == {ToString(n) : n \in 1..(MaxBox + 1)}

OpPages == 0..MaxBox

OpBoxes == UNION {[1..n -> [id : Ids, flags : OpFlagSets]] : n \in 0..MaxBox}

InitOps ==
    \E fs \in {{"INBOX"}, FolderNames}, box \in OpBoxes :
        /\ lFolders = {"INBOX"}
        /\ lBox = [n \in FolderNames |-> EmptyMap]
        /\ rFolders = {encode_utf7(n) : n \in fs}
        /\ rBox = [w \in WireNames |-> IF w = encode_utf7("INBOX") THEN box ELSE <<>>]
        /\ cFoldersL = {}
        /\ cFoldersR = {}
        /\ cEnvL = [n \in FolderNames |-> EmptyMap]
        /\ cEnvR = [n \in FolderNames |-> EmptyMap]
        /\ pc = "idle"
        /\ cur = NoId
        /\ queue = {}
        /\ todo = {}
        /\ snap = NoSnap
        /\ txn = NoTxn
        /\ report = NoReport
        /\ pre = NoPre
        /\ streak = 0
        /\ nExt = 0
        /\ nSync = 0
        /\ nFaults = 0
        /\ call = NoCall
        /\ nOps = 0
        /\ IdleInit
        /\ EmailInit

OpGuard == pc = "idle" /\ nOps < MaxOps

\* the call of operation op with its arguments and its result
OpDo(op, args, res) ==
    /\ nOps' = nOps + 1
    /\ call' = [op |-> op, args |-> args, ok |-> res.ok, val |-> res.val,
                before |-> Remote, after |-> res.B]
    /\ SetRemote(res.B)
    /\ UNCHANGED <<lFolders, lBox, cacheVars, runVars, countVars, idleVars, emailVars>>

OpAddFolder(n) ==
    /\ OpGuard
    /\ OpDo("add_folder", [folder |-> n], add_folder(Remote, n))

OpListFolder ==
    /\ OpGuard
    /\ \E o \in ImapList(Remote) :
          OpDo("list_folder", [order |-> o], Res(TRUE, Remote, list_folder_of(o)))

OpDeleteFolder(n) ==
    /\ OpGuard
    /\ OpDo("delete_folder", [folder |-> n], delete_folder(Remote, n))

OpListEnvelope(f, page_size, page) ==
    /\ OpGuard
    /\ OpDo("list_envelope", [folder |-> f, page_size |-> page_size, page |-> page],
            list_envelope(Remote, f, page_size, page))

OpAddEmail(f, e, flags) ==
    /\ OpGuard
    /\ OpDo("add_email", [folder |-> f, email |-> e, flags |-> flags], add_email(Remote, f, e, flags))

OpGetEmail(f, seq) ==
    /\ OpGuard
    /\ OpDo("get_email", [folder |-> f, seq |-> seq], get_email(Remote, f, seq))

OpCopyEmail(f, t, seq) ==
    /\ OpGuard
    /\ OpDo("copy_email", [folder |-> f, target |-> t, seq |-> seq], copy_email(Remote, f, t, seq))

OpMoveEmail(f, t, seq) ==
    /\ OpGuard
    /\ OpDo("move_email", [folder |-> f, target |-> t, seq |-> seq], move_email(Remote, f, t, seq))

OpDeleteEmail(f, seq) ==
    /\ OpGuard
    /\ OpDo("delete_email", [folder |-> f, seq |-> seq], delete_email(Remote, f, seq))

OpAddFlags(f, seq, flags) ==
    /\ OpGuard
    /\ OpDo("add_flags", [folder |-> f, seq |-> seq, flags |-> flags], add_flags(Remote, f, seq, flags))

OpSetFlags(f, seq, flags) ==
    /\ OpGuard
    /\ OpDo("set_flags", [folder |-> f, seq |-> seq, flags |-> flags], set_flags(Remote, f, seq, flags))

OpRemoveFlags(f, seq, flags) ==
    /\ OpGuard
    /\ OpDo("remove_flags", [folder |-> f, seq |-> seq, flags |-> flags], remove_flags(Remote, f, seq, flags))

NextOps ==
    \/ \E n \in FolderNames : OpAddFolder(n)
    \/ OpListFolder
    \/ \E n \in FolderNames : OpDeleteFolder(n)
    \/ \E f \in FolderNames, page_size \in OpPages, page \in OpPages :
            OpListEnvelope(f, page_size, page)
    \/ \E f \in FolderNames, e \in Ids, flags \in OpFlagSets : OpAddEmail(f, e, flags)
    \/ \E f \in FolderNames, seq \in OpSeqs : OpGetEmail(f, seq)
    \/ \E f \in FolderNames, t \in FolderNames, seq \in OpSeqs : OpCopyEmail(f, t, seq)
    \/ \E f \in FolderNames, t \in FolderNames, seq \in OpSeqs : OpMoveEmail(f, t, seq)
    \/ \E f \in FolderNames, seq \in OpSeqs : OpDeleteEmail(f, seq)
    \/ \E f \in FolderNames, seq \in OpSeqs, flags \in OpFlagSets : OpAddFlags(f, seq, flags)
    \/ \E f \in FolderNames, seq \in OpSeqs, flags \in OpFlagSets : OpSetFlags(f, seq, flags)
    \/ \E f \in FolderNames, seq \in OpSeqs, flags \in OpFlagSets : OpRemoveFlags(f, seq, flags)

SpecOps == InitOps /\ [][NextOps]_vars

\* -------------------------------------------------------------- properties

\* A run has returned and nothing has changed either backend since: pre and
\* report describe that run.
RunDone == pc = "idle" /\ streak >= 1

NoFailure == report.failed = {}

\* The envelopes of a folder as sets of (stable id, flag set).
LEnvs(L, f) == {<<i, L.box[f][i]>> : i \in DOMAIN L.box[f]}

REnvs(R, f) ==
    {<<R.box[encode_utf7(f)][n].id, R.box[encode_utf7(f)][n].flags>> :
        n \in 1..Len(R.box[encode_utf7(f)])}

CEnvs(m) == {<<i, m[i].flags>> : i \in DOMAIN m}

BothFolders == lFolders \cap list_folder(Remote)

\* C1. Reconciler idempotence: when two runs follow each other with no external
\* mutation in between (and no transport failure at all), the second run applies
\* no action to either backend and leaves the cache as it found it.
C1_Idempotent ==
    (pc = "idle" /\ streak = 2 /\ nFaults = 0)
        => (report.applied = {} /\ Cache = pre.C)

\* C2. Reconciler convergence: after a run without failure, every folder lists
\* the same (stable id, flag set) pairs on both sides.
C2_Converged ==
    (RunDone /\ NoFailure)
        => \A f \in BothFolders : LEnvs(Local, f) = REnvs(Remote, f)

\* C9. After a run without failure both cached folder sets equal the folders the
\* backends list, and per folder the cached envelopes of each side equal the
\* envelopes of that side.
C9_CacheAgrees ==
    (RunDone /\ NoFailure)
        => /\ cFoldersL = lFolders
           /\ cFoldersR = list_folder(Remote)
           /\ lFolders = list_folder(Remote)
           /\ \A f \in BothFolders :
                /\ CEnvs(cEnvL[f]) = LEnvs(Local, f)
                /\ CEnvs(cEnvR[f]) = REnvs(Remote, f)

\* The ids a folder held, and the cache held for it, when the run started.
PreL(f) == DOMAIN pre.L.box[f]

PreR(f) == IdsOf(pre.R.box[encode_utf7(f)])

PreCl(f) == DOMAIN pre.C.el[f]

PreCr(f) == DOMAIN pre.C.er[f]

NowL(f) == DOMAIN lBox[f]

NowR(f) == IdsOf(rBox[encode_utf7(f)])

\* No transport failure was injected into the action of this name or id.
Healthy(f, key) == Failed(f, key) \notin report.faulted

CopiedTo(side, f, i) ==
    {a \in report.applied : a.op = "copy" /\ a.side = side /\ a.folder = f /\ a.key = i}

\* C3. Creation propagation: an envelope on exactly one side and in neither
\* cache is copied to the other side, stays on the side that had it, and is
\* afterwards in both caches, the destination record holding the internal id
\* add_email returned.
C3_CreationPropagates ==
    RunDone =>
        \A f \in MailFolders, i \in Ids :
            /\ (i \in PreL(f) /\ i \notin PreR(f) /\ i \notin PreCl(f) /\ i \notin PreCr(f)
                    /\ Healthy(f, i))
                => /\ CopiedTo("R", f, i) # {}
                   /\ i \in NowL(f)
                   /\ i \in DOMAIN cEnvL[f] /\ i \in DOMAIN cEnvR[f]
                   /\ \A a \in CopiedTo("R", f, i) : cEnvR[f][i].iid = a.iid
            /\ (i \notin PreL(f) /\ i \in PreR(f) /\ i \notin PreCl(f) /\ i \notin PreCr(f)
                    /\ Healthy(f, i))
                => /\ CopiedTo("L", f, i) # {}
                   /\ i \in NowR(f)
                   /\ i \in DOMAIN cEnvL[f] /\ i \in DOMAIN cEnvR[f]
                   /\ \A a \in CopiedTo("L", f, i) : cEnvL[f][i].iid = a.iid

\* C4. Deletion propagation: an envelope in both caches and on exactly one side
\* is deleted from that side, is not copied back, and leaves both caches.
C4_DeletionPropagates ==
    RunDone =>
        \A f \in MailFolders, i \in Ids :
            ((i \in PreL(f)) # (i \in PreR(f)) /\ i \in PreCl(f) /\ i \in PreCr(f)
                    /\ Healthy(f, i))
                => /\ i \notin NowL(f) /\ i \notin NowR(f)
                   /\ CopiedTo("L", f, i) = {} /\ CopiedTo("R", f, i) = {}
                   /\ i \notin DOMAIN cEnvL[f] /\ i \notin DOMAIN cEnvR[f]

\* The value of flag g on message i of a folder, per side.
LFlag(L, f, i, g) == g \in L.box[f][i]

RFlag(R, f, i, g) ==
    \E n \in SeqsOf(R.box[encode_utf7(f)], i) : g \in R.box[encode_utf7(f)][n].flags

BothHold(f, i) == i \in NowL(f) /\ i \in NowR(f)

\* C5. Flag convergence, one side changed: both sides hold the envelope, one
\* side's value of a rule flag equals the cached value and the other side's
\* differs; afterwards both sides carry the changed side's value.
C5_OneSideChanged ==
    RunDone =>
        \A f \in MailFolders, i \in Ids, g \in RuleFlags :
            (i \in PreL(f) /\ i \in PreR(f) /\ i \in PreCl(f) /\ i \in PreCr(f)
                    /\ Healthy(f, i))
                => LET l == LFlag(pre.L, f, i, g)
                       r == RFlag(pre.R, f, i, g)
                       cl == g \in pre.C.el[f][i].flags
                       cr == g \in pre.C.er[f][i].flags
                   IN /\ (l = cl /\ r # cr)
                          => (BothHold(f, i) /\ LFlag(Local, f, i, g) = r
                                /\ RFlag(Remote, f, i, g) = r)
                      /\ (r = cr /\ l # cl)
                          => (BothHold(f, i) /\ LFlag(Local, f, i, g) = l
                                /\ RFlag(Remote, f, i, g) = l)

\* The folders each side held, and the cached "ever seen" set, when the run started.
PreFL == pre.L.folders

PreFR == list_folder(pre.R)

PreFC == pre.C.fl \cup pre.C.fr

MadeDir(side, n) == \E a \in report.applied : a.op = "mkdir" /\ a.side = side /\ a.key = n

\* C7. Folder creation propagation: a name on exactly one side and not in the
\* cached set is created on the other side, stays on the side that had it, and
\* both backends list it after the run.
C7_FolderCreated ==
    RunDone =>
        \A n \in FolderNames :
            ((n \in PreFL) # (n \in PreFR) /\ n \notin PreFC /\ Healthy(n, n))
                => /\ IF n \in PreFL THEN MadeDir("R", n) ELSE MadeDir("L", n)
                   /\ n \in mdir_list_folders(Local)
                   /\ n \in list_folder(Remote)

\* C8. Folder deletion propagation: a name in the cached set and on exactly one
\* side is deleted from that side, is not created on the other, and leaves both
\* cached sets; a name gone from both sides and the cache stays gone in a later
\* run.
C8_FolderDeleted ==
    RunDone =>
        \A n \in FolderNames :
            /\ ((n \in PreFL) # (n \in PreFR) /\ n \in PreFC /\ Healthy(n, n))
                => /\ n \notin mdir_list_folders(Local)
                   /\ n \notin list_folder(Remote)
                   /\ ~MadeDir("L", n) /\ ~MadeDir("R", n)
                   /\ n \notin cFoldersL /\ n \notin cFoldersR
            /\ (n \notin PreFL /\ n \notin PreFR /\ n \notin PreFC)
                => /\ n \notin mdir_list_folders(Local)
                   /\ n \notin list_folder(Remote)
                   /\ n \notin cFoldersL /\ n \notin cFoldersR

\* a run that created on the remote side a folder only the local side had
C7_Witness ==
    /\ RunDone
    /\ \E n \in DynFolders :
          /\ n \in PreFL /\ n \notin PreFR /\ n \notin PreFC
          /\ MadeDir("R", n)
          /\ n \in mdir_list_folders(Local) /\ n \in list_folder(Remote)

\* a run that deleted from the remote side a cached folder the local side lost
C8_Witness ==
    /\ RunDone
    /\ \E n \in DynFolders :
          /\ n \notin PreFL /\ n \in PreFR /\ n \in PreFC
          /\ \E a \in report.applied : a.op = "rmdir" /\ a.side = "R" /\ a.key = n
          /\ n \notin list_folder(Remote) /\ n \notin cFoldersL \cup cFoldersR

\* The cache records of an id: the local one and the remote one, if any.
CacheRec(C, f, i) ==
    <<IF i \in DOMAIN C.el[f] THEN {C.el[f][i]} ELSE {},
      IF i \in DOMAIN C.er[f] THEN {C.er[f][i]} ELSE {}>>

PreEnvAction(f, i) ==
    EnvAction(i \in PreL(f), i \in PreR(f), i \in PreCl(f), i \in PreCr(f))

DeletedFrom(side, f, i) ==
    \E a \in report.applied : a.op = "delete" /\ a.side = side /\ a.folder = f /\ a.key = i

\* C10. Partial failure isolation: the run returns its Report whatever failed;
\* the cache records of an id whose action failed are as before the run, and the
\* ids whose action succeeded have the cache records their action prescribes.
C10_FailureIsolated ==
    RunDone =>
        \A f \in MailFolders : \A i \in PreL(f) \cup PreR(f) \cup PreCl(f) \cup PreCr(f) :
            IF Failed(f, i) \in report.failed
            THEN CacheRec(Cache, f, i) = CacheRec(pre.C, f, i)
            ELSE CASE PreEnvAction(f, i) = "copyLR"
                        -> /\ CopiedTo("R", f, i) # {}
                           /\ i \in DOMAIN cEnvL[f] /\ i \in DOMAIN cEnvR[f]
                   [] PreEnvAction(f, i) = "copyRL"
                        -> /\ CopiedTo("L", f, i) # {}
                           /\ i \in DOMAIN cEnvL[f] /\ i \in DOMAIN cEnvR[f]
                   [] PreEnvAction(f, i) = "flags"
                        -> i \in DOMAIN cEnvL[f] /\ i \in DOMAIN cEnvR[f]
                   [] PreEnvAction(f, i) = "deleteL"
                        -> /\ DeletedFrom("L", f, i)
                           /\ i \notin DOMAIN cEnvL[f] /\ i \notin DOMAIN cEnvR[f]
                   [] PreEnvAction(f, i) = "deleteR"
                        -> /\ DeletedFrom("R", f, i)
                           /\ i \notin DOMAIN cEnvL[f] /\ i \notin DOMAIN cEnvR[f]
                   [] PreEnvAction(f, i) = "forget"
                        -> i \notin DOMAIN cEnvL[f] /\ i \notin DOMAIN cEnvR[f]
                   [] OTHER -> CacheRec(Cache, f, i) = CacheRec(pre.C, f, i)

\* a run in which the action of one id failed and the action of another id
\* succeeded and changed the cache
C10_Witness ==
    /\ RunDone
    /\ \E f \in MailFolders, i \in Ids, j \in Ids :
          /\ Failed(f, i) \in report.failed
          /\ CacheRec(Cache, f, i) = CacheRec(pre.C, f, i)
          /\ Failed(f, j) \notin report.failed
          /\ \E a \in report.applied : a.folder = f /\ a.key = j
          /\ CacheRec(Cache, f, j) # CacheRec(pre.C, f, j)

C11_Ordering ==
    [][\A a \in report'.applied \ report.applied :
          /\ a.op = "copy" =>
                ~\E b \in report.applied : b.folder = a.folder /\ b.op \in {"flags", "delete"}
          /\ a.op = "flags" =>
                ~\E b \in report.applied : b.folder = a.folder /\ b.op = "delete"]_vars

\* a run that applied a copy and a delete in one folder
C11_Witness ==
    /\ RunDone
    /\ \E f \in MailFolders :
          /\ \E a \in report.applied : a.folder = f /\ a.op = "copy"
          /\ \E a \in report.applied : a.folder = f /\ a.op = "delete"

\* A reconciliation phase is open: the folder phase, or the envelope phase of a folder.
InPhase == pc = "folders" \/ (pc = "envelopes" /\ cur # NoId)

\* the persisted cache as it was when the open phase started
PhaseStart ==
    IF pc = "folders"
    THEN [Cache EXCEPT !.fl = snap.CL, !.fr = snap.CR]
    ELSE [Cache EXCEPT !.el[cur] = snap.CL, !.er[cur] = snap.CR]

\* the persisted cache with all the writes of the open phase applied
PhaseDone ==
    IF pc = "folders"
    THEN [Cache EXCEPT !.fl = txn.fl, !.fr = txn.fr]
    ELSE [Cache EXCEPT !.el[cur] = txn.el, !.er[cur] = txn.er]

CacheAfter == [fl |-> cFoldersL', fr |-> cFoldersR', el |-> cEnvL', er |-> cEnvR']

\* C12. Cache write atomicity: whatever step ends or continues an open phase,
\* a crash included, the persisted cache afterwards is the cache as it was
\* before the phase started or the cache with all of the phase's writes applied.
C12_CacheAtomic ==
    [][InPhase => \/ CacheAfter = PhaseStart
                  \/ (todo = {} /\ CacheAfter = PhaseDone)]_vars

\* the process crashed in an envelope phase after a copy was applied to a
\* backend: the persisted cache holds none of the phase's writes
C12_Witness ==
    /\ pc = "idle" /\ streak = 0
    /\ \E a \in report.applied : a.op = "copy"
    /\ \A f \in MailFolders : cEnvL[f] = pre.C.el[f] /\ cEnvR[f] = pre.C.er[f]
    /\ \E f \in MailFolders : LEnvs(Local, f) # LEnvs(pre.L, f) \/ REnvs(Remote, f) # REnvs(pre.R, f)

\* C13. Raw byte round-trip: for bytes B added to a folder, whatever the folder
\* held before, get_email of the id that add_email returned succeeds and its
\* as_raw() is B.
C13_RoundTrip ==
    \A f \in FolderNames, B \in Ids, flags \in OpFlagSets :
       LET a == add_email(Remote, f, B, flags)
       IN a.ok =>
            LET g == get_email(a.B, f, a.val)
            IN /\ g.ok
               /\ as_raw(g.val).ok
               /\ as_raw(g.val).val = B

\* add_email was called on a folder whose first message has other bytes, and
\* get_email of the returned id gives the added bytes back
C13_Witness ==
    /\ call.op = "add_email" /\ call.ok
    /\ LET wire == encode_utf7(call.args.folder)
           g == get_email(call.after, call.args.folder, call.val)
       IN /\ Len(call.before.box[wire]) > 0
          /\ call.before.box[wire][1].id # call.args.email
          /\ g.ok /\ as_raw(g.val).val = call.args.email

\* sequence number n names a message of folder f
HasMsg(R, f, n) == encode_utf7(f) \in R.folders /\ n \in 1..Len(R.box[encode_utf7(f)])

\* the message at sequence number n of folder f
MsgAt(R, f, n) == R.box[encode_utf7(f)][n]

\* C14. Flag algebra: for a message of a folder and flag sets A, B, C (Deleted
\* included), set_flags(A), add_flags(B), remove_flags(C) all succeed and leave
\* the message in the folder with exactly the flags (A \cup B) \ C.
C14_FlagAlgebra ==
    \A f \in MailFolders, n \in 1..MaxBox, A \in OpFlagSets, B \in OpFlagSets, C \in OpFlagSets :
       HasMsg(Remote, f, n) =>
          LET s1 == set_flags(Remote, f, ToString(n), A)
              s2 == add_flags(s1.B, f, ToString(n), B)
              s3 == remove_flags(s2.B, f, ToString(n), C)
          IN /\ s1.ok /\ s2.ok /\ s3.ok
             /\ HasMsg(s3.B, f, n)
             /\ MsgAt(s3.B, f, n) = [id |-> MsgAt(Remote, f, n).id, flags |-> (A \cup B) \ C]

\* C15. Idempotent flag add: for a message of a folder and a flag set B (Deleted
\* included), add_flags(B) twice succeeds both times and leaves the folder as
\* add_flags(B) once: the same messages with the same flags.
C15_AddFlagsIdempotent ==
    \A f \in MailFolders, n \in 1..MaxBox, B \in OpFlagSets :
       HasMsg(Remote, f, n) =>
          LET a1 == add_flags(Remote, f, ToString(n), B)
              a2 == add_flags(a1.B, f, ToString(n), B)
          IN a1.ok /\ a2.ok /\ a2.B = a1.B

\* number of pages that cover N messages, page_size at a time
Ceil(N, page_size) == (N + page_size - 1) \div page_size

\* how many times the envelope e is listed on the pages 0..last of a folder
PageHits(R, f, page_size, last, e) ==
    Cardinality({pk \in (0..last) \X (1..MaxBox) :
                   LET l == list_envelope(R, f, page_size, pk[1]).val
                   IN pk[2] <= Len(l) /\ l[pk[2]] = e})

\* C16. Pagination totality: for a folder of N messages and a page size s > 0,
\* the pages p = 0..ceil(N/s), the page at or past the end included, list
\* together exactly the envelopes of list_envelope(f, 0, 0), each one once.
C16_PaginationTotal ==
    \A f \in MailFolders, page_size \in 1..MaxBox :
       LET all == list_envelope(Remote, f, 0, 0)
           last == Ceil(Len(all.val), page_size)
       IN all.ok =>
            /\ \A p \in 0..last :
                  LET l == list_envelope(Remote, f, page_size, p)
                  IN l.ok /\ \A k \in 1..Len(l.val) : \E j \in 1..Len(all.val) : all.val[j] = l.val[k]
            /\ \A j \in 1..Len(all.val) : PageHits(Remote, f, page_size, last, all.val[j]) = 1

\* a sequence without its n-th element
Without(box, n) == [k \in 1..(Len(box) - 1) |-> IF k < n THEN box[k] ELSE box[k + 1]]

\* C17. Delete: delete_email of the id of one message of a folder succeeds and
\* removes exactly that message: the folder afterwards is the folder before
\* without it, every other message kept with its flags.
C17_DeleteExactlyOne ==
    \A f \in MailFolders, n \in 1..MaxBox :
       HasMsg(Remote, f, n) =>
          LET d == delete_email(Remote, f, ToString(n))
          IN /\ d.ok
             /\ d.B.box[encode_utf7(f)] = Without(Remote.box[encode_utf7(f)], n)

\* C18. add_folder is idempotent: add_folder of a name that already exists
\* returns success and leaves the folders and their contents unchanged.
C18_AddFolderIdempotent ==
    \A n \in FolderNames :
       encode_utf7(n) \in Remote.folders =>
          LET a == add_folder(Remote, n)
          IN a.ok /\ a.B = Remote

\* the place of a folder name in the order INBOX first, then lexicographic
FolderRank(n) ==
    CASE n = "INBOX" -> 0
      [] n = "Projects" -> 1
      [] n = "R&D" -> 2

\* C19. Deterministic folder order: whatever order the server reports the
\* mailboxes in, list_folder returns INBOX first when present and then the
\* other names in lexicographic order.
C19_FolderOrder ==
    \A o \in ImapList(Remote) :
       LET l == list_folder_of(o)
       IN \A i \in DOMAIN l : \A j \in DOMAIN l :
             i < j => FolderRank(l[i]) < FolderRank(l[j])

\* a failed call that left the mailbox state as it was
Refused(res) == ~res.ok /\ res.B = Remote

borrow_mut_unchecked(n) == [ok |-> TRUE, n |-> n + 1]

\* RefCell::borrow_mut on a cell with n live borrows: panics when n > 0
borrow_mut(n) == IF n = 0 THEN [ok |-> TRUE, n |-> 1] ELSE [ok |-> FALSE, n |-> n]

mainVars == <<backendVars, cacheVars, runVars, countVars, opVars, emailVars>>

\* ImapBackend::new: connect and log in; the backend owns the new session
New(u) ==
    /\ upc[u] = "new"
    /\ sid' = [sid EXCEPT ![u] = Cardinality({v \in Users : sid[v] # 0}) + 1]
    /\ upc' = [upc EXCEPT ![u] = "ready"]
    /\ UNCHANGED <<mainVars, borrows, cancel, tick>>

\* a Backend operation starts: it borrows the session and issues its commands
OpBegin(u) ==
    /\ upc[u] = "ready"
    /\ LET b == borrow_mut(borrows[u])
       IN /\ borrows' = [borrows EXCEPT ![u] = b.n]
          /\ upc' = [upc EXCEPT ![u] = IF b.ok THEN "op" ELSE "panicked"]
    /\ UNCHANGED <<mainVars, sid, cancel, tick>>

\* the operation returns: its RefMut is dropped
OpEnd(u) ==
    /\ upc[u] = "op"
    /\ borrows' = [borrows EXCEPT ![u] = @ - 1]
    /\ upc' = [upc EXCEPT ![u] = "ready"]
    /\ UNCHANGED <<mainVars, sid, cancel, tick>>

\* notify: borrow the session and EXAMINE the mailbox; err: EXAMINE fails
NotifyExamine(u, err) ==
    /\ upc[u] = "ready"
    /\ LET b == borrow_mut(borrows[u])
       IN /\ borrows' = [borrows EXCEPT ![u] = IF b.ok /\ err THEN 0 ELSE b.n]
          /\ upc' = [upc EXCEPT ![u] = CASE ~b.ok -> "panicked"
                                          [] err -> "failed"
                                          [] OTHER -> "notify_examined"]
    /\ UNCHANGED <<mainVars, sid, cancel, tick>>

\* notify takes its snapshot: self.search_new_msgs(..) borrows the session
\* again while notify's RefMut is alive; a refused borrow panics and the
\* unwinding drops notify's RefMut
NotifySnapshot(u) ==
    /\ upc[u] = "notify_examined"
    /\ LET b == borrow_mut(borrows[u])
       IN /\ borrows' = [borrows EXCEPT ![u] = IF b.ok THEN b.n ELSE 0]
          /\ upc' = [upc EXCEPT ![u] = IF b.ok THEN "notify_searching" ELSE "panicked"]
    /\ UNCHANGED <<mainVars, sid, cancel, tick>>

\* watch: borrow the session and EXAMINE the mailbox; err: EXAMINE fails
WatchExamine(u, err) ==
    /\ upc[u] = "ready"
    /\ LET b == borrow_mut(borrows[u])
       IN /\ borrows' = [borrows EXCEPT ![u] = IF b.ok /\ err THEN 0 ELSE b.n]
          /\ upc' = [upc EXCEPT ![u] = CASE ~b.ok -> "panicked"
                                          [] err -> "failed"
                                          [] OTHER -> "watch_loop"]
    /\ UNCHANGED <<mainVars, sid, cancel, tick>>

\* watch, begin loop: spawn the watch commands and enter IDLE; err: IDLE fails
WatchIdle(u, err) ==
    /\ upc[u] = "watch_loop"
    /\ borrows' = [borrows EXCEPT ![u] = IF err THEN 0 ELSE @]
    /\ upc' = [upc EXCEPT ![u] = IF err THEN "failed" ELSE "watch_waiting"]
    /\ tick' = [tick EXCEPT ![u] = 0]
    /\ UNCHANGED <<mainVars, sid, cancel>>

\* wait_keepalive_while: the keepalive elapses, IDLE is issued again and the
\* wait goes on
WatchKeepalive(u) ==
    /\ upc[u] = "watch_waiting"
    /\ tick' = [tick EXCEPT ![u] = 1 - @]
    /\ UNCHANGED <<mainVars, upc, sid, borrows, cancel>>

\* wait_keepalive_while: a server response arrives and the callback returns
\* false (end loop, then begin loop again); err: the connection fails
WatchWake(u, err) ==
    /\ upc[u] = "watch_waiting"
    /\ borrows' = [borrows EXCEPT ![u] = IF err THEN 0 ELSE @]
    /\ upc' = [upc EXCEPT ![u] = IF err THEN "failed" ELSE "watch_loop"]
    /\ UNCHANGED <<mainVars, sid, cancel, tick>>

\* the caller of the loops asks them to stop; notify and watch take no token
\* and read none
Cancel ==
    /\ ~cancel
    /\ cancel' = TRUE
    /\ UNCHANGED <<mainVars, upc, sid, borrows, tick>>

NextIdle ==
    \/ \E u \in Users : New(u)
    \/ \E u \in Users : OpBegin(u)
    \/ \E u \in Users : OpEnd(u)
    \/ \E u \in Users, err \in BOOLEAN : NotifyExamine(u, err)
    \/ \E u \in Users : NotifySnapshot(u)
    \/ \E u \in Users, err \in BOOLEAN : WatchExamine(u, err)
    \/ \E u \in Users, err \in BOOLEAN : WatchIdle(u, err)
    \/ \E u \in Users : WatchKeepalive(u)
    \/ \E u \in Users, err \in BOOLEAN : WatchWake(u, err)
    \/ Cancel

SpecIdle == Init /\ [][NextIdle]_vars

\* every thread keeps running its call
SpecIdleFair == SpecIdle /\ \A u \in Users : WF_vars(WatchIdle(u, FALSE) \/ WatchKeepalive(u))

InLoop(u) == upc[u] \in {"watch_loop", "watch_waiting"}

\* C23. IDLE cancellation: once cancellation is requested a running watch
\* loop eventually returns; a loop returns only on cancellation or on an error.
C23_CancelStops ==
    /\ \A u \in Users : (cancel /\ InLoop(u)) ~> ~InLoop(u)
    /\ [][\A u \in Users : (InLoop(u) /\ ~InLoop(u)') => (cancel \/ upc'[u] = "failed")]_vars

\* --------------------------------------- Email (src/domain/email/email.rs)

MaxCalls == 3

\* a mailbox: display name and address
Mb(n, e) == [name |-> n, email |-> e]

\* a header value that parses into mailboxes, and one that does not
HVal(ms) == [ok |-> TRUE, mboxes |-> ms]

Garbage == [ok |-> FALSE, mboxes |-> <<>>]

FromVals == {<<HVal(<<Mb("", "al")>>)>>, <<HVal(<<Mb("Myself", "me")>>)>>}

ReplyToVals == {<<>>, <<HVal(<<Mb("", "bo")>>)>>, <<HVal(<<Mb("", "me"), Mb("", "bo")>>)>>}

ToVals ==
    {<<HVal(<<Mb("", "me")>>)>>,
     <<HVal(<<Mb("", "me"), Mb("", "ca")>>)>>,
     <<HVal(<<Mb("", "bo")>>), HVal(<<Mb("Myself", "me")>>)>>,
     <<Garbage>>}

CcVals == {<<>>, <<HVal(<<Mb("", "me"), Mb("", "da")>>)>>}

\* raw messages: the header lines From, Reply-To, To, Cc in this order
GoodBytes == FromVals \X ReplyToVals \X ToVals \X CcVals

\* bytes that are no message
BadBytes == <<>>

\* the account's own address (config.addr())
Senders == {Mb("Me", "me")}

\* mailparse::parse_mail: the tree keeps the raw bytes and the headers by name
parse_mail(bytes) ==
    IF Len(bytes) # 4
    THEN [ok |-> FALSE, val |-> "ParseEmailError"]
    ELSE [ok |-> TRUE,
          val |-> [raw_bytes |-> bytes,
                   headers |-> [From |-> bytes[1], ReplyTo |-> bytes[2],
                                To |-> bytes[3], Cc |-> bytes[4]]]]

\* From<Vec<u8>>, From<&[u8]>, From<ParsedMail> for Email
Email_from_vec(vec) == [raw |-> "Vec", bytes |-> vec, parsed |-> None]

Email_from_bytes(bytes) == [raw |-> "Bytes", bytes |-> bytes, parsed |-> None]

Email_from_parsed(p) == [raw |-> "Bytes", bytes |-> p.raw_bytes, parsed |-> Some(p)]

\* a parsed() that parses on every call
Email_parsed_again(e) ==
    LET body == as_raw(e)
        p == IF body.ok THEN parse_mail(body.val) ELSE body
    IN IF p.ok
       THEN [ok |-> TRUE, val |-> p.val, email |-> [e EXCEPT !.parsed = Some(p.val)], n |-> 1]
       ELSE [ok |-> FALSE, val |-> p.val, email |-> e, n |-> 0]

\* Email::parsed: parse the raw bytes when no tree is cached and cache the
\* tree; n is the number of successful parses the call made
Email_parsed(e) ==
    IF ~e.parsed.some
    THEN LET body == as_raw(e)
             p == IF body.ok THEN parse_mail(body.val) ELSE body
         IN IF p.ok
            THEN [ok |-> TRUE, val |-> p.val, email |-> [e EXCEPT !.parsed = Some(p.val)], n |-> 1]
            ELSE [ok |-> FALSE, val |-> p.val, email |-> e, n |-> 0]
    ELSE [ok |-> TRUE, val |-> e.parsed.val, email |-> e, n |-> 0]

\* the mailboxes of header values, in order, without those of address own
RECURSIVE MboxesOf(_, _)
MboxesOf(vals, own) ==
    IF vals = <<>>
    THEN <<>>
    ELSE SelectSeq(Head(vals).mboxes, LAMBDA mb : mb.email # own.email) \o MboxesOf(Tail(vals), own)

AllParse(vals) == \A k \in 1..Len(vals) : vals[k].ok

\* a reply that keeps every recipient
to_reply_tpl_keep_all(e, sender, all) ==
    LET p == Email_parsed(e)
    IN IF ~p.ok
       THEN [ok |-> FALSE, val |-> p.val, email |-> p.email, n |-> p.n]
       ELSE LET h == p.val.headers
                vals == (IF h.ReplyTo = <<>> THEN h.From ELSE h.ReplyTo) \o h.To
            IN IF ~AllParse(vals) \/ (all /\ ~AllParse(h.Cc))
               THEN [ok |-> FALSE, val |-> "ParseEmailAddressError", email |-> p.email, n |-> p.n]
               ELSE [ok |-> TRUE,
                     val |-> [from |-> sender, to |-> MboxesOf(vals, sender),
                              cc |-> IF all THEN Some(MboxesOf(h.Cc, sender)) ELSE None],
                     email |-> p.email, n |-> p.n]

\* Email::to_reply_tpl: the From, To and Cc of the reply template
to_reply_tpl(e, sender, all) ==
    LET p == Email_parsed(e)
    IN IF ~p.ok
       THEN [ok |-> FALSE, val |-> p.val, email |-> p.email, n |-> p.n]
       ELSE LET h == p.val.headers
                vals == (IF h.ReplyTo = <<>> THEN h.From ELSE h.ReplyTo) \o h.To
                all_mboxes == MboxesOf(vals, sender)
                to == IF all \/ all_mboxes = <<>> THEN all_mboxes ELSE <<all_mboxes[1]>>
            IN IF ~AllParse(vals) \/ (all /\ ~AllParse(h.Cc))
               THEN [ok |-> FALSE, val |-> "ParseEmailAddressError", email |-> p.email, n |-> p.n]
               ELSE [ok |-> TRUE,
                     val |-> [from |-> sender, to |-> to,
                              cc |-> IF all THEN Some(MboxesOf(h.Cc, sender)) ELSE None],
                     email |-> p.email, n |-> p.n]

\* the Email values under test, as their constructors build them
Emails ==
    {Email_from_vec(b) : b \in GoodBytes \cup {BadBytes}}
    \cup {Email_from_bytes(b) : b \in GoodBytes \cup {BadBytes}}
    \cup {Email_try_from(<<[seq |-> 1, body |-> b]>>).val : b \in GoodBytes \cup {BadBytes}}
    \cup {Email_from_parsed(parse_mail(b).val) : b \in GoodBytes}

InitEmails ==
    /\ lFolders = {"INBOX"}
    /\ lBox = [n \in FolderNames |-> EmptyMap]
    /\ rFolders = {encode_utf7("INBOX")}
    /\ rBox = [w \in WireNames |-> <<>>]
    /\ cFoldersL = {}
    /\ cFoldersR = {}
    /\ cEnvL = [n \in FolderNames |-> EmptyMap]
    /\ cEnvR = [n \in FolderNames |-> EmptyMap]
    /\ pc = "idle"
    /\ cur = NoId
    /\ queue = {}
    /\ todo = {}
    /\ snap = NoSnap
    /\ txn = NoTxn
    /\ report = NoReport
    /\ pre = NoPre
    /\ streak = 0
    /\ nExt = 0
    /\ nSync = 0
    /\ nFaults = 0
    /\ call = NoCall
    /\ nOps = 0
    /\ IdleInit
    /\ emailVal \in Emails
    /\ parses = 0
    /\ ret = NoCall
    /\ nCalls = 0

EmailDo(op, args, r) ==
    /\ nCalls' = nCalls + 1
    /\ emailVal' = r.email
    /\ parses' = parses + r.n
    /\ ret' = [op |-> op, args |-> args, ok |-> r.ok, val |-> r.val]
    /\ UNCHANGED <<backendVars, cacheVars, runVars, countVars, opVars, idleVars>>

\* email.parsed()
Parsed ==
    /\ nCalls < MaxCalls
    /\ EmailDo("parsed", [all |-> FALSE], Email_parsed(emailVal))

\* email.to_reply_tpl(config, all)
ToReplyTpl(sender, all) ==
    /\ nCalls < MaxCalls
    /\ EmailDo("to_reply_tpl", [sender |-> sender, all |-> all], to_reply_tpl(emailVal, sender, all))

NextEmails ==
    \/ Parsed
    \/ \E sender \in Senders, all \in BOOLEAN : ToReplyTpl(sender, all)

SpecEmails == InitEmails /\ [][NextEmails]_vars

\* C24. Lazy memoized parsing: the raw bytes of one Email value are parsed at
\* most once however many calls succeed; a call on a value that holds a parse
\* tree (cached by an earlier call, or given when the value was built from a
\* parsed mail) parses nothing and returns that tree; a call that fails
\* leaves the value without a tree.
C24_ParsedOnce ==
    /\ [](parses <= 1)
    /\ [][/\ emailVal.parsed.some => (parses' = parses /\ emailVal' = emailVal)
          /\ (ret'.op = "parsed" /\ emailVal.parsed.some) => (ret'.ok /\ ret'.val = emailVal.parsed.val)
          /\ (ret'.op = "parsed" /\ ~ret'.ok) => ~emailVal'.parsed.some]_vars

\* three calls succeeded on one Email value built from raw bytes, and the
\* bytes were parsed once
C24_Witness ==
    /\ nCalls = MaxCalls /\ parses = 1
    /\ ret.op = "parsed" /\ ret.ok
    /\ emailVal.raw = "ImapFetches" /\ emailVal.parsed.some

\* every mailbox of header values, in order
RECURSIVE Flat(_)
Flat(vals) == IF vals = <<>> THEN <<>> ELSE Head(vals).mboxes \o Flat(Tail(vals))

NotOwn(ms, own) == SelectSeq(ms, LAMBDA mb : mb.email # own.email)

\* C26. Reply recipients: in a template to_reply_tpl built, From is the
\* account's own address; the recipients are the Reply-To mailboxes (the
\* From mailboxes when there is no Reply-To) followed by the To mailboxes,
\* without the account's own address; a plain reply has the first of them as
\* To and no Cc, a reply-all has them all as To and the Cc mailboxes without
\* the account's own address as Cc.
C26_ReplyRecipients ==
    (ret.op = "to_reply_tpl" /\ ret.ok) =>
       LET b == as_raw(emailVal).val
           own == ret.args.sender
           them == NotOwn(Flat(IF b[2] = <<>> THEN b[1] ELSE b[2]) \o Flat(b[3]), own)
       IN /\ ret.val.from = own
          /\ ret.args.all => (ret.val.to = them /\ ret.val.cc = Some(NotOwn(Flat(b[4]), own)))
          /\ ~ret.args.all =>
                /\ ret.val.to = (IF them = <<>> THEN <<>> ELSE <<Head(them)>>)
                /\ ret.val.cc = None

\* a plain reply to a message with a Reply-To that names the account first
\* and two To lines: the reply goes to the second Reply-To mailbox only
C26_Witness ==
    /\ ret.op = "to_reply_tpl" /\ ret.ok /\ ~ret.args.all
    /\ LET b == as_raw(emailVal).val
       IN /\ b[2] = <<HVal(<<Mb("", "me"), Mb("", "bo")>>)>>
          /\ Len(b[3]) = 2
          /\ ret.val.to = <<Mb("", "bo")>>
          /\ ret.val.cc = None

\* ------------------------------------------ envelope model (spec.md 4.1, 4.4)

\* header values of the messages; "" is an absent header
MessageIds == {"", "<A@h>", "<a@h>", " <a@h> ", "<b@h>"}

HeaderSets == [message_id : MessageIds, from : {"", "al"}, subject : {"", "hi", "re"},
               date : {"", "d1"}]

\* lowercased and trimmed
Normalise(message_id) ==
    CASE message_id = "<A@h>" -> "<a@h>"
      [] message_id = " <a@h> " -> "<a@h>"
      [] OTHER -> message_id

\* hex(sha256(x)), taken to be free of collisions
sha256(x) == <<"sha256", x>>

\* the stable identity rule
StableId(h) ==
    IF h.message_id # ""
    THEN sha256(<<Normalise(h.message_id)>>)
    ELSE sha256(<<h.from, h.subject, h.date>>)

Invalid(h) == h.message_id = "" /\ h.from = "" /\ h.subject = "" /\ h.date = ""

\* an IMAP envelope that takes the backend's own id as its id
imap_envelope_by_iid(h, iid, flags) ==
    IF Invalid(h)
    THEN [ok |-> FALSE, val |-> "InvalidEnvelope"]
    ELSE [ok |-> TRUE, val |-> [id |-> sha256(<<iid>>), internal_id |-> iid, flags |-> flags,
                                 message_id |-> h.message_id]]

\* the envelope parsed from an IMAP ENVELOPE response
imap_envelope(h, iid, flags) ==
    IF Invalid(h)
    THEN [ok |-> FALSE, val |-> "InvalidEnvelope"]
    ELSE [ok |-> TRUE, val |-> [id |-> StableId(h), internal_id |-> iid, flags |-> flags,
                                 message_id |-> h.message_id]]

\* the envelope parsed from the headers of a Maildir file
mdir_envelope(h, stem, flags) ==
    IF Invalid(h)
    THEN [ok |-> FALSE, val |-> "InvalidEnvelope"]
    ELSE [ok |-> TRUE, val |-> [id |-> StableId(h), internal_id |-> stem, flags |-> flags,
                                 message_id |-> h.message_id]]

Stems == {"1a", "2b"}

EnvelopeDo(op, args, res) ==
    /\ nOps < MaxOps
    /\ nOps' = nOps + 1
    /\ call' = [op |-> op, args |-> args, ok |-> res.ok, val |-> res.val]
    /\ UNCHANGED <<backendVars, cacheVars, runVars, countVars, idleVars, emailVars>>

\* a message is listed on the IMAP side
OpImapEnvelope(h, iid, flags) ==
    /\ pc = "idle"
    /\ EnvelopeDo("imap_envelope", [headers |-> h, iid |-> iid, flags |-> flags],
             imap_envelope(h, iid, flags))

\* a message is listed on the Maildir side
OpMdirEnvelope(h, stem, flags) ==
    /\ pc = "idle"
    /\ EnvelopeDo("mdir_envelope", [headers |-> h, iid |-> stem, flags |-> flags],
             mdir_envelope(h, stem, flags))

NextEnvelopes ==
    \/ \E h \in HeaderSets, iid \in OpSeqs, flags \in OpFlagSets : OpImapEnvelope(h, iid, flags)
    \/ \E h \in HeaderSets, stem \in Stems, flags \in OpFlagSets : OpMdirEnvelope(h, stem, flags)

SpecEnvelopes == Init /\ [][NextEnvelopes]_vars

SameMessage(h, g) ==
    IF h.message_id # "" \/ g.message_id # ""
    THEN h.message_id # "" /\ g.message_id # "" /\ Normalise(h.message_id) = Normalise(g.message_id)
    ELSE h.from = g.from /\ h.subject = g.subject /\ h.date = g.date

\* C25. Stable identity: the id of a listed envelope is the id either backend
\* gives to any message with the same Message-Id (with the same from, subject
\* and date when there is no Message-Id), whatever the backend, the
\* internal id and the flags.
C25_StableIdentity ==
    (call.op \in {"imap_envelope", "mdir_envelope"} /\ call.ok) =>
       \A g \in HeaderSets :
          SameMessage(call.args.headers, g) =>
             /\ \A iid \in OpSeqs : \A flags \in OpFlagSets :
                   LET e == imap_envelope(g, iid, flags) IN e.ok /\ e.val.id = call.val.id
             /\ \A stem \in Stems : \A flags \in OpFlagSets :
                   LET e == mdir_envelope(g, stem, flags) IN e.ok /\ e.val.id = call.val.id

\* a message without Message-Id is listed on the IMAP side; its id is the id
\* of the Maildir file with the same from, subject and date
C25_Witness ==
    /\ call.op = "imap_envelope" /\ call.ok
    /\ call.args.headers.message_id = ""
    /\ call.val.id = mdir_envelope(call.args.headers, "1a", {"Seen"}).val.id
    /\ call.val.internal_id # "1a"

\* ------------------------------------------------ the envelope rule list
\* The rule list of spec.md 4.8 as a relation: each rule is the set of presence
\* values it admits in L, in R, in Cl and in Cr, and the action it prescribes.

Yes == {TRUE}

No == {FALSE}

Rule(l, r, cl, cr, act) == [l |-> l, r |-> r, cl |-> cl, cr |-> cr, act |-> act]

EnvRules ==
    { Rule(Yes, Yes, BOOLEAN, BOOLEAN, "flags"),
      Rule(Yes, No, No, No, "copyLR"),
      Rule(No, Yes, No, No, "copyRL"),
      Rule(Yes, No, Yes, Yes, "deleteL"),
      Rule(No, Yes, Yes, Yes, "deleteR"),
      Rule(No, No, Yes, Yes, "forget"),
      Rule(Yes, No, No, Yes, "forget"),
      Rule(No, Yes, Yes, No, "forget"),
      Rule(Yes, No, Yes, No, "copyLR"),
      Rule(No, Yes, No, Yes, "copyRL") }

\* the actions of the rules that a presence tuple matches
RuleActions(t) ==
    {q.act : q \in {x \in EnvRules : t[1] \in x.l /\ t[2] \in x.r /\ t[3] \in x.cl /\ t[4] \in x.cr}}

\* the presence tuple of id i in the inputs of the envelope phase
TupleOf(i) ==
    <<i \in DOMAIN snap.L, i \in DOMAIN snap.R, i \in DOMAIN snap.CL, i \in DOMAIN snap.CR>>

\* The inputs of one envelope phase: for each id, whether INBOX holds it on the
\* local side, on the remote side, and whether each cache has a record of it.
TupleSets == [Ids -> BOOLEAN \X BOOLEAN \X BOOLEAN \X BOOLEAN]

\* the ids of S as a mailbox, in the order the server keeps them
BoxOf(S) ==
    LET s == CHOOSE q \in [1..Cardinality(S) -> S] : {q[n] : n \in 1..Cardinality(S)} = S
    IN [n \in 1..Cardinality(S) |-> [id |-> s[n], flags |-> {}]]

\* An account whose INBOX is cached as a folder of both sides and whose envelope
\* caches hold any records: the cache is a persistent store the run reads.
InitTuples ==
    /\ \E t \in TupleSets :
          LET inL == {i \in Ids : t[i][1]}
              inR == {i \in Ids : t[i][2]}
              inCl == {i \in Ids : t[i][3]}
              inCr == {i \in Ids : t[i][4]}
              box == BoxOf(inR)
          IN /\ lBox = [n \in FolderNames |->
                           IF n = "INBOX" THEN [i \in inL |-> {}] ELSE EmptyMap]
             /\ rBox = [w \in WireNames |->
                           IF w = encode_utf7("INBOX") THEN box ELSE <<>>]
             /\ cEnvL = [n \in FolderNames |->
                           IF n = "INBOX"
                           THEN [i \in inCl |-> [iid |-> i, flags |-> {}]]
                           ELSE EmptyMap]
             /\ cEnvR = [n \in FolderNames |->
                           IF n = "INBOX"
                           THEN [i \in inCr |->
                                    [iid |-> IF i \in inR
                                             THEN ToString(CHOOSE m \in SeqsOf(box, i) : TRUE)
                                             ELSE "1",
                                     flags |-> {}]]
                           ELSE EmptyMap]
    /\ lFolders = {"INBOX"}
    /\ rFolders = {encode_utf7("INBOX")}
    /\ cFoldersL = {"INBOX"}
    /\ cFoldersR = {"INBOX"}
    /\ pc = "idle"
    /\ cur = NoId
    /\ queue = {}
    /\ todo = {}
    /\ snap = NoSnap
    /\ txn = NoTxn
    /\ report = NoReport
    /\ pre = NoPre
    /\ streak = 0
    /\ nExt = 0
    /\ nSync = 0
    /\ nFaults = 0
    /\ call = NoCall
    /\ nOps = 0
    /\ IdleInit
    /\ EmailInit

\* sync runs on these inputs, with no other client at work
NextTuples ==
    \/ SyncStart
    \/ \E n \in FolderNames, k \in {0, 1} : FolderStep(n, k)
    \/ FolderCommit
    \/ EnvStart
    \/ \E i \in Ids, k \in FaultChoices : EnvCopyLR(i, k)
    \/ \E i \in Ids, k \in FaultChoices : EnvCopyRL(i, k)
    \/ \E i \in Ids, k \in FaultChoices : EnvFlags(i, k)
    \/ \E i \in Ids, k \in {0, 1} : EnvDeleteL(i, k)
    \/ \E i \in Ids, k \in {0, 1} : EnvDeleteR(i, k)
    \/ \E i \in Ids : EnvForget(i)
    \/ EnvCommit
    \/ SyncEnd

SpecTuples == InitTuples /\ [][NextTuples]_vars

\* the envelope phase of a folder is open
InEnvPhase == pc = "envelopes" /\ cur # NoId

Classified == DOMAIN snap.L \cup DOMAIN snap.R \cup DOMAIN snap.CL \cup DOMAIN snap.CR

\* id i is on neither side and in exactly one of the two caches
Orphan(i) ==
    /\ i \notin DOMAIN snap.L /\ i \notin DOMAIN snap.R
    /\ (i \in DOMAIN snap.CL) # (i \in DOMAIN snap.CR)

KnownBoth(f, i) ==
    \/ i \in DOMAIN cEnvL[f] /\ i \in DOMAIN cEnvR[f]
    \/ cur = f /\ i \in DOMAIN txn.el /\ i \in DOMAIN txn.er

\* C28 (envelopes): a step of a sync run removes a message from a side of a
\* folder that stays only if the cache records the message as known on both
\* sides; a message cached for no side or one side, such as one whose copy to the
\* other side failed, is never deleted from the side that holds it.
C28_NoUnsyncedDelete ==
    [][pc = "envelopes" =>
          \A f \in MailFolders : \A i \in Ids :
             /\ (i \in DOMAIN lBox[f] /\ i \notin DOMAIN lBox'[f]) => KnownBoth(f, i)
             /\ (i \in IdsOf(rBox[encode_utf7(f)]) /\ i \notin IdsOf(rBox'[encode_utf7(f)]))
                    => KnownBoth(f, i)]_vars

\* ------------------------------------------------------ pagination window
\* list_envelope is called with any page size and page on a mailbox for which
\* SELECT reports any EXISTS, in either build.

ListEnvelopeWindow(build, last_seq, page_size, page) ==
    /\ OpGuard
    /\ nOps' = nOps + 1
    /\ call' = [op |-> "list_envelope_window", build |-> build, last_seq |-> last_seq,
                page_size |-> page_size, page |-> page,
                out |-> list_envelope_window(build, last_seq, page_size, page)]
    /\ UNCHANGED <<backendVars, cacheVars, runVars, countVars, idleVars, emailVars>>

NextPage ==
    \E build \in Builds, last_seq \in Usize, page_size \in Usize, page \in Usize :
        ListEnvelopeWindow(build, last_seq, page_size, page)

SpecPage == Init /\ [][NextPage]_vars

WindowCalled == call.op = "list_envelope_window"

\* the window of the claim, on the integers
WindowAsStated(N, s, p, o) ==
    /\ (N >= 1 /\ s >= 1) =>
          /\ o.kind = "fetch" /\ ~o.wrapped
          /\ o.begin = usize_max(1, N - p * s)
          /\ o.end = usize_max(1, N - (p + 1) * s + 1)
          /\ 1 <= o.end /\ o.end <= o.begin /\ o.begin <= N
    /\ (N >= 1 /\ s = 0) => o.kind = "all"
    /\ N = 0 => o.kind = "empty"

\* C29 as stated: for EXISTS = N >= 1, every page size s >= 1 and every page
\* p >= 0 list_envelope fetches lower:upper with upper = max(1, N - p*s) and
\* lower = max(1, N - (p+1)*s + 1), no operation leaves the range of usize, and
\* 1 <= lower <= upper <= N; for s = 0 the range is 1:*; for N = 0 no FETCH.
C29_Window ==
    WindowCalled => WindowAsStated(call.last_seq, call.page_size, call.page, call.out)

\* C29 as it holds: the same, for the pages p whose product p*s fits in usize.
C29_WindowInRange ==
    (WindowCalled /\ call.page * call.page_size <= UsizeMax) =>
        WindowAsStated(call.last_seq, call.page_size, call.page, call.out)

\* a page in the middle of a mailbox has been computed: it neither starts at the
\* first message nor ends at the last
C29_Witness ==
    /\ WindowCalled
    /\ call.page >= 1 /\ call.page_size >= 2
    /\ call.out.kind = "fetch"
    /\ call.out.end > 1 /\ call.out.begin < call.last_seq
    /\ call.out.begin - call.out.end + 1 = call.page_size

\* ------------------------------------------------------- stability of ids

\* C30. Ids are stable message identifiers: an id that an envelope listing of a
\* folder returned denotes, when passed to get_email after a delete_email of
\* another message of the folder, the same message as before, for every listed
\* message that the expunge of the delete left in the folder.
C30_IdsStable ==
    (call.op = "delete_email" /\ call.ok) =>
        LET f == call.args.folder
            all == list_envelope(call.before, f, 0, 0).val
        IN \A k \in 1..Len(all) :
              (all[k].iid # call.args.seq /\ "Deleted" \notin all[k].flags) =>
                  LET g == get_email(call.after, f, all[k].iid)
                  IN g.ok /\ as_raw(g.val).val = all[k].id

\* ------------------------------------------------------- frame conditions

\* C31. Read operations are read-only: list_envelope and get_email leave every
\* mailbox, and so the flag set of every message, as it was; fetching the bytes
\* of a message does not add Seen to it.
C31_ReadOnly ==
    call.op \in {"list_envelope", "get_email"} => call.after = call.before

\* C32. Flag operations remove nothing: add_flags, set_flags and remove_flags
\* with a flag set without Deleted keep every message of the folder, those that
\* carry Deleted included, keep the message at each sequence number, and change
\* the flags of no message other than the one the id denotes.
C32_FlagOpsRemoveNothing ==
    (/\ call.op \in {"add_flags", "set_flags", "remove_flags"}
     /\ call.ok
     /\ "Deleted" \notin call.args.flags) =>
        LET wire == encode_utf7(call.args.folder)
            b == call.before.box[wire]
            a == call.after.box[wire]
        IN /\ Len(a) = Len(b)
           /\ \A n \in 1..Len(b) :
                 /\ a[n].id = b[n].id
                 /\ ToString(n) # call.args.seq => a[n] = b[n]
           /\ \A w \in WireNames \ {wire} : call.after.box[w] = call.before.box[w]

\* --------------------------------------------- re-entrant session borrows

\* C33. No re-entrant session acquisition: the step notify takes after its
\* EXAMINE succeeded, the snapshot search, is made under the one borrow notify
\* holds and takes notify on to its search and its IDLE loop; it is not a second
\* acquisition of the session, which would end the call.
C33_NoReentrantBorrow ==
    [][\A u \in Users :
          (upc[u] = "notify_examined" /\ upc'[u] # "notify_examined") =>
              (upc'[u] = "notify_searching" /\ borrows'[u] = 1)]_vars

\* ------------------------------------------- mailbox names on the wire
\* Each operation that names a mailbox sends one or two commands that carry the
\* name; the server holds its mailboxes under their modified-UTF-7 names.

\* names at the contract, one of them with a character that the coding rewrites
ContractNames == FolderNames \cup {"R&D"}

ServerNames == {encode_utf7(n) : n \in ContractNames}

\* the operations and the command in which each carries the name
NameCommands ==
    { <<"add_folder", "CREATE">>, <<"delete_folder", "DELETE">>,
      <<"list_envelope", "SELECT">>, <<"search_envelope", "SELECT">>,
      <<"add_email", "APPEND">>, <<"get_email", "SELECT">>,
      <<"copy_email", "SELECT">>, <<"copy_email", "COPY">>,
      <<"move_email", "SELECT">>, <<"move_email", "MOVE">>,
      <<"add_flags", "SELECT">>, <<"set_flags", "SELECT">>,
      <<"remove_flags", "SELECT">>,
      <<"notify", "EXAMINE">>, <<"watch", "EXAMINE">> }

\* the mailbox argument an operation puts in its command for the name it was
\* given: notify and watch pass mbox to session.examine as it is, every other
\* operation passes encode_utf7(folder)
mailbox_arg(op, name) ==
    IF op \in {"notify", "watch"} THEN name ELSE encode_utf7(name)

\* an operation sends its command to a server that holds the mailboxes S
SendMailboxName(oc, name, S) ==
    /\ OpGuard
    /\ nOps' = nOps + 1
    /\ call' = [op |-> "mailbox_command", of |-> oc[1], command |-> oc[2],
                name |-> name, mailboxes |-> S,
                sent |-> mailbox_arg(oc[1], name),
                listed |-> {}]
    /\ UNCHANGED <<backendVars, cacheVars, runVars, countVars, idleVars, emailVars>>

\* list_folder on a server that holds the mailboxes S: LIST "" "*", each name
\* decoded
ListMailboxNames(S) ==
    /\ OpGuard
    /\ nOps' = nOps + 1
    /\ call' = [op |-> "mailbox_list", of |-> "list_folder", command |-> "LIST",
                name |-> "", mailboxes |-> S, sent |-> "",
                listed |-> {decode_utf7(w) : w \in S}]
    /\ UNCHANGED <<backendVars, cacheVars, runVars, countVars, idleVars, emailVars>>

NextNames ==
    \/ \E oc \in NameCommands, name \in ContractNames, S \in SUBSET ServerNames :
          SendMailboxName(oc, name, S)
    \/ \E S \in SUBSET ServerNames : ListMailboxNames(S)

SpecNames == Init /\ [][NextNames]_vars

\* C34. Folder-name encoding at the IMAP boundary: every command that carries
\* a mailbox name, in every operation, notify and watch included, carries the
\* modified-UTF-7 encoding of the name given at the contract, so that it names
\* the mailbox add_folder creates for that name; and list_folder returns for
\* every mailbox the decoded name, so that the name add_folder was given is
\* listed back unchanged.
C34_NamesEncoded ==
    /\ call.op = "mailbox_command" =>
          /\ call.sent = encode_utf7(call.name)
          /\ call.sent \in add_folder([folders |-> {}, box |-> rBox], call.name).B.folders
    /\ call.op = "mailbox_list" =>
          \A n \in ContractNames :
             n \in call.listed <=>
                add_folder([folders |-> {}, box |-> rBox], n).B.folders \subseteq call.mailboxes

\* ------------------------------------------------------- ImapBackend::new
\* The connection of a backend: the TLS connector is built, the client builder
\* connects (with STARTTLS first when it was asked to) and hands the TCP stream
\* to the closure new gives it, and LOGIN is sent on the stream the closure
\* returned.

\* the ssl, starttls and insecure settings of an ImapConfig
ImapConfigs == [ssl : BOOLEAN, starttls : BOOLEAN, insecure : BOOLEAN]

\* what the network and the server answer: the connector builds, the TCP
\* connection and STARTTLS are accepted, the TLS handshake completes, the
\* password command yields a password, LOGIN is accepted
Answers == [builder : BOOLEAN, connect : BOOLEAN, handshake : BOOLEAN,
            passwd : BOOLEAN, login : BOOLEAN]

Connected(ok, err, events, stream) ==
    [ok |-> ok, err |-> err, events |-> events, stream |-> stream]

\* ClientBuilder::connect: the commands sent before the closure runs
client_builder_connect(starttls) ==
    IF starttls THEN <<"tcp_connect", "STARTTLS">> ELSE <<"tcp_connect">>

\* ImapBackend::new
ImapBackend_new(config, answer) ==
    IF ~answer.builder
    THEN Connected(FALSE, "CreateTlsConnectorError", <<>>, "none")
    ELSE IF ~answer.connect
    THEN Connected(FALSE, "ConnectImapServerError", <<>>, "none")
    ELSE LET pre_events == client_builder_connect(config.starttls)
             stream == IF config.ssl THEN "Tls" ELSE "Tcp"
             events == IF config.ssl THEN Append(pre_events, "tls_handshake") ELSE pre_events
         IN IF config.ssl /\ ~answer.handshake
            THEN Connected(FALSE, "ConnectImapServerError", events, "none")
            ELSE IF ~answer.passwd
            THEN Connected(FALSE, "passwd_error", events, stream)
            ELSE IF ~answer.login
            THEN Connected(FALSE, "LoginImapServerError", Append(events, "LOGIN"), stream)
            ELSE Connected(TRUE, "none", Append(events, "LOGIN"), stream)

\* a backend is built for a configuration
Connect(config, answer) ==
    /\ OpGuard
    /\ nOps' = nOps + 1
    /\ call' = [op |-> "new", config |-> config, answer |-> answer,
                out |-> ImapBackend_new(config, answer)]
    /\ UNCHANGED <<backendVars, cacheVars, runVars, countVars, idleVars, emailVars>>

NextConnect == \E config \in ImapConfigs, answer \in Answers : Connect(config, answer)

SpecConnect == Init /\ [][NextConnect]_vars

Sent(events, e) == \E k \in 1..Len(events) : events[k] = e

\* C35. STARTTLS is honoured: with starttls set, whatever ssl is, a connection
\* that gets as far as LOGIN was opened in plain, upgraded with STARTTLS and a
\* TLS handshake, and LOGIN goes on the TLS stream; with ssl or starttls set
\* LOGIN is never sent on a plain TCP stream; a backend exists only if LOGIN
\* was sent and accepted.
C35_StartTls ==
    call.op = "new" =>
        LET c == call.config
            o == call.out
        IN /\ (c.starttls /\ Sent(o.events, "LOGIN")) =>
                 /\ Sent(o.events, "STARTTLS") /\ Sent(o.events, "tls_handshake")
                 /\ o.stream = "Tls"
           /\ ((c.ssl \/ c.starttls) /\ Sent(o.events, "LOGIN")) => o.stream = "Tls"
           /\ o.ok => (Sent(o.events, "LOGIN") /\ call.answer.login)

\* ---------------------------------------------------- search pagination
\* search_envelope after SELECT reported last_seq and SEARCH or SORT returned
\* the sequence numbers of M matches, seqs[0..M-1].

\* what search_envelope does next: it returns no envelope without a FETCH
\* ("empty"), it fetches seqs[from..to-1] ("fetch"), or it panics ("panic") on an
\* arithmetic overflow in a debug build or on a slice whose start is past its end
SearchWindow(kind, from, to, wrapped) ==
    [kind |-> kind, from |-> from, to |-> to, wrapped |-> wrapped]

search_envelope_window(build, last_seq, M, page_size, page) ==
    IF last_seq = 0
    THEN SearchWindow("empty", 0, 0, FALSE)
    ELSE LET begin == usize_mul(build, page, page_size)
             less == usize_sub(build, page_size, 1)
             end == usize_add(build, begin.val, less.val)
             stop == usize_min(end.val, M)
         IN IF ~(begin.ok /\ less.ok /\ end.ok)
            THEN SearchWindow("panic", 0, 0, FALSE)
            ELSE IF M = 0
            THEN SearchWindow("empty", 0, 0, begin.wrapped \/ less.wrapped \/ end.wrapped)
            ELSE IF begin.val > stop
            THEN SearchWindow("panic", 0, 0, begin.wrapped \/ less.wrapped \/ end.wrapped)
            ELSE SearchWindow("fetch", begin.val, stop,
                              begin.wrapped \/ less.wrapped \/ end.wrapped)

\* search_envelope is called with any page size and page on a mailbox of
\* last_seq messages of which M match the query
SearchEnvelopeWindow ==
    /\ OpGuard
    /\ \E build \in Builds, last_seq \in Usize, page_size \in Usize, page \in Usize :
          \E M \in 0..last_seq :
             call' = [op |-> "search_envelope_window", build |-> build,
                      last_seq |-> last_seq, M |-> M, page_size |-> page_size,
                      page |-> page,
                      out |-> search_envelope_window(build, last_seq, M, page_size, page)]
    /\ nOps' = nOps + 1
    /\ UNCHANGED <<backendVars, cacheVars, runVars, countVars, idleVars, emailVars>>

NextSearch == SearchEnvelopeWindow

SpecSearch == Init /\ [][NextSearch]_vars

\* the positions of the matches a window fetches
Fetched(o) == IF o.kind = "fetch" THEN {k \in Usize : o.from <= k /\ k < o.to} ELSE {}

\* C36. Search pagination window: with M matches, page size s >= 1 and page
\* p >= 0, search_envelope fetches exactly the matches at the positions
\* p*s .. min((p+1)*s, M) - 1; when p*s >= M it returns an empty result and
\* does not fail; with page size 0 it fetches all the matches and no operation
\* leaves the range of usize.
C36_SearchWindow ==
    call.op = "search_envelope_window" =>
        LET M == call.M
            sz == call.page_size
            pg == call.page
            o == call.out
        IN /\ o.kind # "panic"
           /\ sz >= 1 =>
                 Fetched(o) = {k \in Usize : pg * sz <= k /\ k < usize_min((pg + 1) * sz, M)}
           /\ sz = 0 => (Fetched(o) = {k \in Usize : k < M} /\ ~o.wrapped)

\* --------------------------------------- add_email beside another client
\* add_email is two commands, APPEND and then SELECT; another client of the
\* same mailbox can have its own command served between the two.

\* add_email, first command: APPEND folder (flags) email
AddEmailAppend(f, e, flags) ==
    /\ OpGuard /\ call = NoCall
    /\ ImapSelectOk(Remote, encode_utf7(f))
    /\ rBox' = [rBox EXCEPT ![encode_utf7(f)] = ImapAppend(@, e, flags)]
    /\ call' = [op |-> "add_email_append", args |-> [folder |-> f, email |-> e, flags |-> flags],
                ok |-> TRUE, val |-> NoId, others |-> 0]
    /\ UNCHANGED <<lFolders, lBox, rFolders, cacheVars, runVars, countVars, nOps, idleVars, emailVars>>

\* another client appends a message to the folder before the SELECT
OtherAppend(e) ==
    /\ call.op = "add_email_append" /\ call.others < MaxOthers
    /\ rBox' = [rBox EXCEPT ![encode_utf7(call.args.folder)] = ImapAppend(@, e, {})]
    /\ call' = [call EXCEPT !.others = @ + 1]
    /\ UNCHANGED <<lFolders, lBox, rFolders, cacheVars, runVars, countVars, nOps, idleVars, emailVars>>

\* another client flags message n of the folder Deleted and expunges it before
\* the SELECT
OtherExpunge(n) ==
    /\ call.op = "add_email_append" /\ call.others < MaxOthers
    /\ n \in 1..Len(rBox[encode_utf7(call.args.folder)])
    /\ rBox' = [rBox EXCEPT ![encode_utf7(call.args.folder)] =
                    ImapExpunge(ImapStore(@, ToString(n), "+FLAGS", {"Deleted"}))]
    /\ call' = [call EXCEPT !.others = @ + 1]
    /\ UNCHANGED <<lFolders, lBox, rFolders, cacheVars, runVars, countVars, nOps, idleVars, emailVars>>

\* add_email, second command: SELECT folder; EXISTS is returned as the id
AddEmailSelect ==
    /\ call.op = "add_email_append"
    /\ call' = [call EXCEPT !.op = "add_email_select",
                            !.val = ToString(Len(rBox[encode_utf7(call.args.folder)]))]
    /\ nOps' = nOps + 1
    /\ UNCHANGED <<backendVars, cacheVars, runVars, countVars, idleVars, emailVars>>

NextAppend ==
    \/ \E f \in MailFolders, e \in Ids, flags \in OpFlagSets : AddEmailAppend(f, e, flags)
    \/ \E e \in Ids : OtherAppend(e)
    \/ \E n \in 1..(MaxBox + MaxOthers + 1) : OtherExpunge(n)
    \/ AddEmailSelect

SpecAppend == InitOps /\ [][NextAppend]_vars

\* C37. add_email returns the id of the message it appended even when another
\* client appended to or expunged from the folder between its APPEND and its
\* SELECT: as long as the appended message is in the folder, get_email of the
\* returned id succeeds and gives the appended bytes.
C37_AddEmailId ==
    (/\ call.op = "add_email_select"
     /\ call.args.email \in IdsOf(rBox[encode_utf7(call.args.folder)])) =>
        LET g == get_email(Remote, call.args.folder, call.val)
        IN g.ok /\ as_raw(g.val).val = call.args.email

\* ------------------------------------------------- AppError to response
\* api/error.rs: an AppError becomes an HTTP response through CustomError.

\* HTTP status codes
StatusCodes == 100..599

\* the texts errors display and bad requests carry
ErrorTexts == {"", "pool timed out", "invalid token", "missing field id"}

\* An AppError: its variant, for GraphClient the variant of the inner error and
\* the status of a Request, and the text the inner error displays or the String
\* of a BadRequest.
AppErr(kind, inner, status, text) ==
    [kind |-> kind, inner |-> inner, status |-> status, text |-> text]

AppErrors ==
    {AppErr("GraphClient", "Request", st, "request failed") : st \in StatusCodes}
    \cup {AppErr("GraphClient", "Other", 0, t) : t \in ErrorTexts}
    \cup {AppErr(k, "none", 0, t) : k \in {"Database", "Other", "BadRequest"}, t \in ErrorTexts}

\* Display::to_string of an inner error
to_string(err) == err.text

\* CustomError::new
CustomError_new(message, status) == [message |-> message, status |-> status]

\* CustomError::into_response: the JSON body {"message": message} with the
\* status set on the response
CustomError_into_response(e) ==
    [status |-> e.status,
     content_type |-> "application/json",
     body |-> [message |-> e.message]]

\* the conversion with the arm for any GraphClient error placed before the arm
\* for GraphClient Request
AppError_into_response_generic_first(e) ==
    CustomError_into_response(
        IF e.kind = "BadRequest"
        THEN CustomError_new(e.text, 400)
        ELSE CustomError_new(to_string(e), 500))

\* AppError::into_response: the arms of the match in their order
AppError_into_response(e) ==
    CustomError_into_response(
        IF e.kind = "GraphClient" /\ e.inner = "Request"
        THEN CustomError_new(
                 CASE e.status = 401 -> "Unauthorized"
                   [] e.status = 403 -> "Forbidden"
                   [] e.status = 404 -> "Not found"
                   [] OTHER -> "An error occurred while processing the request",
                 e.status)
        ELSE IF e.kind = "Database"
        THEN CustomError_new(to_string(e), 500)
        ELSE IF e.kind = "GraphClient"
        THEN CustomError_new(to_string(e), 500)
        ELSE IF e.kind = "Other"
        THEN CustomError_new(to_string(e), 500)
        ELSE CustomError_new(e.text, 400))

\* a handler returns an AppError and axum converts it
IntoResponse ==
    /\ OpGuard
    /\ \E e \in AppErrors :
          call' = [op |-> "into_response", err |-> e, out |-> AppError_into_response(e)]
    /\ nOps' = nOps + 1
    /\ UNCHANGED <<backendVars, cacheVars, runVars, countVars, idleVars, emailVars>>

NextErrors == IntoResponse

SpecErrors == Init /\ [][NextErrors]_vars

Generic == "An error occurred while processing the request"

\* C38. Error-to-response mapping: every AppError converts to one response
\* with the JSON body {message}: BadRequest(m) gives 400 with message m;
\* GraphClient Request(status) gives that status with "Unauthorized" for 401,
\* "Forbidden" for 403, "Not found" for 404 and the generic sentence otherwise;
\* every Database, Other and other GraphClient error gives 500 with the
\* error's own text.
C38_ErrorMapping ==
    call.op = "into_response" =>
        LET e == call.err
            o == call.out
        IN /\ DOMAIN o.body = {"message"}
           /\ e.kind = "BadRequest" => (o.status = 400 /\ o.body.message = e.text)
           /\ (e.kind = "GraphClient" /\ e.inner = "Request") =>
                 /\ o.status = e.status
                 /\ e.status = 401 => o.body.message = "Unauthorized"
                 /\ e.status = 403 => o.body.message = "Forbidden"
                 /\ e.status = 404 => o.body.message = "Not found"
                 /\ e.status \notin {401, 403, 404} => o.body.message = Generic
           /\ (e.kind \in {"Database", "Other"} \/ (e.kind = "GraphClient" /\ e.inner # "Request")) =>
                 (o.status = 500 /\ o.body.message = to_string(e))

\* an upstream 404 has been converted: status 404, message "Not found", and
\* not the text of the inner error
C38_Witness ==
    /\ call.op = "into_response"
    /\ call.err.kind = "GraphClient" /\ call.err.inner = "Request" /\ call.err.status = 404
    /\ call.out.status = 404 /\ call.out.body.message = "Not found"
    /\ call.out.body.message # to_string(call.err)


====
